---- MODULE Spec2Model ----
(***************************************************************************)
(* A model of redlog: levels, the global Config, immutable scoped Loggers, *)
(* FieldSets, formatters, sinks and the log pipeline (redlog/core.py,      *)
(* fields.py, formatters.py, sinks.py, themes.py, utils.py).               *)
(*                                                                         *)
(* Python strings are TLA+ strings (\o, Len, SubSeq).  Python's None is    *)
(* the string None for object references held in Logger slots and the      *)
(* number NoRef for heap references.                                     *)
(***************************************************************************)
EXTENDS Integers, Sequences, FiniteSets, TLC

VARIABLES
  min_level,   \* Config._min_level
  theme,       \* Config._theme (None until first read or set_theme)
  lock,        \* Config._lock: the thread holding it, or NoThread
  pc,          \* per thread: position inside set_level / get_level / get_theme / set_theme
  targ,        \* per thread: the argument of the call in progress
  tret,        \* per thread: the value returned by the last completed getter
  hist,        \* history of the Config: writes made and the last completed set_level
  loggers,     \* the Logger objects created so far (index = identity)
  fsHeap,      \* the FieldSet objects referenced by loggers (index = identity)
  birth,       \* per logger: its observable value when it was constructed
  derived,     \* the last derivation performed: operation, receiver, result
  sinkBuf,     \* StringSink.buffer of the one StringSink of the host program
  stderr,      \* sys.stderr: whether it is closed, and the lines printed to it
  environ,     \* os.environ restricted to the colour variables
  isatty,      \* sys.stderr.isatty()
  fsink,       \* the FileSink of the host program and the file it opened
  last,        \* observation of the last log call (what it did and how it ended)
  mux,         \* MultiplexSink.sinks: per delegate its identity and whether it raises
  muxLog       \* per MultiplexSink call: the delegates reached and how the call ended

cfgVars  == <<min_level, theme, lock>>
thrVars  == <<pc, targ, tret, hist>>
objVars  == <<loggers, fsHeap, birth, derived>>
ioVars   == <<sinkBuf, stderr, environ, isatty, fsink>>
muxVars  == <<mux, muxLog>>
vars     == <<min_level, theme, lock, pc, targ, tret, hist, loggers, fsHeap, birth,
              derived, sinkBuf, stderr, environ, isatty, fsink, last, mux, muxLog>>

---------------------------------------------------------------------------
(* Python's None, for object slots, heap references and the lock holder.  *)

None   == "<None>"
NoRef  == 0
NoThread == 0

---------------------------------------------------------------------------
(* core.py: Level *)

CRITICAL == 0
ERROR    == 1
WARN     == 2
INFO     == 3
VERBOSE  == 4
TRACE    == 5
DEBUG    == 6
PEDANTIC == 7
ANNOYING == 8

Level == {CRITICAL, ERROR, WARN, INFO, VERBOSE, TRACE, DEBUG, PEDANTIC, ANNOYING}

level_name(level) ==
  CASE level = CRITICAL -> "critical"
    [] level = ERROR    -> "error"
    [] level = WARN     -> "warn"
    [] level = INFO     -> "info"
    [] level = VERBOSE  -> "verbose"
    [] level = TRACE    -> "trace"
    [] level = DEBUG    -> "debug"
    [] level = PEDANTIC -> "pedantic"
    [] level = ANNOYING -> "annoying"
    [] OTHER            -> "unknown"

\* a short name that is the full name
level_short_name_full(level) == level_name(level)

level_short_name(level) ==
  CASE level = CRITICAL -> "crt"
    [] level = ERROR    -> "err"
    [] level = WARN     -> "wrn"
    [] level = INFO     -> "inf"
    [] level = VERBOSE  -> "vrb"
    [] level = TRACE    -> "trc"
    [] level = DEBUG    -> "dbg"
    [] level = PEDANTIC -> "ped"
    [] level = ANNOYING -> "ayg"
    [] OTHER            -> "unk"

---------------------------------------------------------------------------
(* core.py: the log methods of Logger, as dispatch tables. *)

FullMethods  == {"critical", "error", "warn", "info", "verbose", "trace", "debug",
                 "pedantic", "annoying"}
ShortMethods == {"crt", "err", "wrn", "inf", "vrb", "trc", "dbg", "ped", "ayg"}
LogMethods   == FullMethods \cup ShortMethods

FullFMethods  == {"critical_f", "error_f", "warn_f", "info_f", "verbose_f", "trace_f",
                  "debug_f", "pedantic_f", "annoying_f"}
ShortFMethods == {"crt_f", "err_f", "wrn_f", "inf_f", "vrb_f", "trc_f", "dbg_f",
                  "ped_f", "ayg_f"}
PrintfMethods == FullFMethods \cup ShortFMethods

\* critical .. annoying: the level each full-name method hands to _log
FullMethodLevel(m) ==
  CASE m = "critical" -> CRITICAL
    [] m = "error"    -> ERROR
    [] m = "warn"     -> WARN
    [] m = "info"     -> INFO
    [] m = "verbose"  -> VERBOSE
    [] m = "trace"    -> TRACE
    [] m = "debug"    -> DEBUG
    [] m = "pedantic" -> PEDANTIC
    [] m = "annoying" -> ANNOYING

\* crt .. ayg: the full-name method each alias calls
ShortMethodTarget(m) ==
  CASE m = "crt" -> "critical"
    [] m = "err" -> "error"
    [] m = "wrn" -> "warn"
    [] m = "inf" -> "info"
    [] m = "vrb" -> "verbose"
    [] m = "trc" -> "trace"
    [] m = "dbg" -> "debug"
    [] m = "ped" -> "pedantic"
    [] m = "ayg" -> "annoying"

\* the level a log method (full name or alias) reaches _log with
MethodLevel(m) ==
  IF m \in ShortMethods THEN FullMethodLevel(ShortMethodTarget(m)) ELSE FullMethodLevel(m)

\* critical_f .. annoying_f: the level of the guard `if not self._should_log(..)`
FMethodGuardLevel(m) ==
  CASE m = "critical_f" -> CRITICAL
    [] m = "error_f"    -> ERROR
    [] m = "warn_f"     -> WARN
    [] m = "info_f"     -> INFO
    [] m = "verbose_f"  -> VERBOSE
    [] m = "trace_f"    -> TRACE
    [] m = "debug_f"    -> DEBUG
    [] m = "pedantic_f" -> PEDANTIC
    [] m = "annoying_f" -> ANNOYING

\* critical_f .. annoying_f: the log method the interpolated message is handed to
FMethodDelegate(m) ==
  CASE m = "critical_f" -> "critical"
    [] m = "error_f"    -> "error"
    [] m = "warn_f"     -> "warn"
    [] m = "info_f"     -> "info"
    [] m = "verbose_f"  -> "verbose"
    [] m = "trace_f"    -> "trace"
    [] m = "debug_f"    -> "debug"
    [] m = "pedantic_f" -> "pedantic"
    [] m = "annoying_f" -> "annoying"

\* crt_f .. ayg_f: the printf method each alias calls
ShortFMethodTarget(m) ==
  CASE m = "crt_f" -> "critical_f"
    [] m = "err_f" -> "error_f"
    [] m = "wrn_f" -> "warn_f"
    [] m = "inf_f" -> "info_f"
    [] m = "vrb_f" -> "verbose_f"
    [] m = "trc_f" -> "trace_f"
    [] m = "dbg_f" -> "debug_f"
    [] m = "ped_f" -> "pedantic_f"
    [] m = "ayg_f" -> "annoying_f"

FMethodResolve(m) == IF m \in ShortFMethods THEN ShortFMethodTarget(m) ELSE m

\* a level check that lets a call through only strictly below the minimum
Logger_should_log_strict(level, minLevel) == level < minLevel

\* Logger._should_log with the value read from _config.min_level
Logger_should_log(level, minLevel) == level <= minLevel

---------------------------------------------------------------------------
(* Python values handed to the library (field values, printf arguments). *)

PyNone      == [t |-> "none", s |-> "", n |-> 0]
PyStr(x)    == [t |-> "str",  s |-> x,  n |-> 0]
PyInt(i)    == [t |-> "int",  s |-> "", n |-> i]
PyBool(b)   == [t |-> "bool", s |-> "", n |-> IF b THEN 1 ELSE 0]
\* an object of another type: its __str__ result, or a __str__ that raises
PyObj(x)    == [t |-> "obj",  s |-> x,  n |-> 0]
PyBadObj    == [t |-> "badobj", s |-> "", n |-> 0]

\* Python's str(int)
IntStr(i) == IF i < 0 THEN "-" \o ToString(0 - i) ELSE ToString(i)

\* utils.stringify
stringify(value) ==
  IF value.t = "none" THEN "null"
  ELSE IF value.t = "str" THEN value.s
  ELSE IF value.t = "int" THEN IntStr(value.n)
  ELSE IF value.t = "bool" THEN (IF value.n = 1 THEN "True" ELSE "False")
  ELSE IF value.t = "obj" THEN value.s
  ELSE "[unprintable]"

---------------------------------------------------------------------------
(* `format_str % args`: Python's printf-style interpolation, for the       *)
(* directives %s, %d and %%.  The result is the exception raised ("none"   *)
(* when there is none) and the string produced.                            *)

CharAt(s, i) == SubSeq(s, i, i)

IsNumber(v) == v.t \in {"int", "bool"}

RECURSIVE Interpolate(_, _, _, _, _)
Interpolate(f, i, args, k, acc) ==
  IF i > Len(f)
  THEN IF k <= Len(args)
       THEN [exc |-> "TypeError", out |-> ""]      \* not all arguments converted
       ELSE [exc |-> "none", out |-> acc]
  ELSE IF CharAt(f, i) # "%"
  THEN Interpolate(f, i + 1, args, k, acc \o CharAt(f, i))
  ELSE IF i = Len(f)
  THEN [exc |-> "ValueError", out |-> ""]          \* incomplete format
  ELSE IF CharAt(f, i + 1) = "%"
  THEN Interpolate(f, i + 2, args, k, acc \o "%")
  ELSE IF CharAt(f, i + 1) \notin {"s", "d"}
  THEN [exc |-> "ValueError", out |-> ""]          \* unsupported format character
  ELSE IF k > Len(args)
  THEN [exc |-> "TypeError", out |-> ""]           \* not enough arguments
  ELSE IF CharAt(f, i + 1) = "s"
  THEN Interpolate(f, i + 2, args, k + 1, acc \o stringify(args[k]))
  ELSE IF IsNumber(args[k])
  THEN Interpolate(f, i + 2, args, k + 1, acc \o IntStr(args[k].n))
  ELSE [exc |-> "TypeError", out |-> ""]           \* %d format: a real number is required

PercentFormat(format_str, args) == Interpolate(format_str, 1, args, 1, "")

\* utils.fmt
fmt(format_str, args) ==
  LET r == PercentFormat(format_str, args)
  IN  IF r.exc \in {"TypeError", "ValueError"} THEN "[format_error]" ELSE r.out


---------------------------------------------------------------------------
(* fields.py: Field and FieldSet.  FieldSet objects live in a heap (a      *)
(* sequence of field lists, the index is the object's identity) so that    *)
(* sharing and in-place mutation are visible.                              *)

\* Field.__init__
Field(key, value) == [key |-> key, value |-> stringify(value)]

\* FieldSet.__init__: a new object holding `fields or []`
FieldSet_init(heap, fields) ==
  [heap |-> Append(heap, fields), ref |-> Len(heap) + 1]

\* FieldSet.add: in place
FieldSet_add(heap, ref, field) == [heap EXCEPT ![ref] = Append(@, field)]

\* FieldSet.merge: in place
FieldSet_merge(heap, ref, other) == [heap EXCEPT ![ref] = @ \o heap[other]]

\* a with_field that appends to the receiver and returns it
FieldSet_with_field_inplace(heap, ref, field) ==
  [heap |-> FieldSet_add(heap, ref, field), ref |-> ref]

\* a with_field that puts the new field first
FieldSet_with_field_prepend(heap, ref, field) ==
  FieldSet_init(heap, <<field>> \o heap[ref])

\* FieldSet.with_field: a new FieldSet over a new list
FieldSet_with_field(heap, ref, field) == FieldSet_init(heap, heap[ref] \o <<field>>)

\* a with_fields that merges into the receiver and returns it
FieldSet_with_fields_inplace(heap, ref, other) ==
  [heap |-> FieldSet_merge(heap, ref, other), ref |-> ref]

\* FieldSet.with_fields: a new FieldSet over a new list
FieldSet_with_fields(heap, ref, other) == FieldSet_init(heap, heap[ref] \o heap[other])

\* FieldSet.empty
FieldSet_empty(heap, ref) == Len(heap[ref]) = 0

\* Temporaries that nothing references any more are reclaimed: of the cells
\* allocated after the first `keep`, only the one `ref` names survives.
Reclaim(keep, r) ==
  IF r.ref > keep
  THEN [heap |-> Append(SubSeq(r.heap, 1, keep), r.heap[r.ref]), ref |-> keep + 1]
  ELSE [heap |-> SubSeq(r.heap, 1, keep), ref |-> r.ref]

---------------------------------------------------------------------------
(* core.py: Logger construction and derivation.  A Logger is the record    *)
(* of its four slots; `ls` is the sequence of Logger objects (the index is *)
(* the object's identity).                                                 *)

\* Logger.__init__
Logger_init(name, formatter, sink, fields) ==
  [name |-> name, formatter |-> formatter, sink |-> sink, fields |-> fields]

\* get_logger
get_logger(name) == Logger_init(name, None, None, NoRef)

\* Logger.fields: the bound FieldSet, or a fresh empty one
Logger_fields(heap, lg) ==
  IF lg.fields = NoRef THEN FieldSet_init(heap, <<>>) ELSE [heap |-> heap, ref |-> lg.fields]

\* the fields a logger carries, by value
BoundFields(heap, lg) == IF lg.fields = NoRef THEN <<>> ELSE heap[lg.fields]

\* a with_name that joins every segment with a dot, also onto an empty name
Logger_with_name_alwaysdot(lg, name) ==
  Logger_init(lg.name \o "." \o name, lg.formatter, lg.sink, lg.fields)

\* Logger.with_name
Logger_with_name(lg, name) ==
  Logger_init(IF lg.name # "" THEN lg.name \o "." \o name ELSE name,
              lg.formatter, lg.sink, lg.fields)


\* Logger.with_field
Logger_with_field(heap, lg, key, value) ==
  LET own == Logger_fields(heap, lg)
      new == FieldSet_with_field(own.heap, own.ref, Field(key, value))
  IN  [heap |-> new.heap, logger |-> Logger_init(lg.name, lg.formatter, lg.sink, new.ref)]

\* the loop of Logger.with_fields and of Logger._log: with_field, field by field
RECURSIVE ExtendFields(_, _, _, _)
ExtendFields(heap, ref, fields, i) ==
  IF i > Len(fields) THEN [heap |-> heap, ref |-> ref]
  ELSE LET new == FieldSet_with_field(heap, ref, fields[i])
       IN  ExtendFields(new.heap, new.ref, fields, i + 1)

\* Logger.with_fields
Logger_with_fields(heap, lg, fields) ==
  LET own == Logger_fields(heap, lg)
      new == ExtendFields(own.heap, own.ref, fields, 1)
  IN  [heap |-> new.heap, logger |-> Logger_init(lg.name, lg.formatter, lg.sink, new.ref)]

\* what a caller can observe of a logger: its slots, the fields by value
LoggerView(heap, lg) ==
  [name |-> lg.name, formatter |-> lg.formatter, sink |-> lg.sink,
   fields |-> BoundFields(heap, lg)]


---------------------------------------------------------------------------
(* themes.py: Color and Theme; utils.py: colour detection and colorize.    *)

Color == [NONE |-> 0, RED |-> 31, GREEN |-> 32, YELLOW |-> 33, BLUE |-> 34,
          MAGENTA |-> 35, CYAN |-> 36, WHITE |-> 37, BRIGHT_BLACK |-> 90,
          BRIGHT_MAGENTA |-> 95, BRIGHT_CYAN |-> 96, ON_RED |-> 41]

\* Theme(): the dataclass defaults
Theme_DEFAULT ==
  [critical_color |-> Color.BRIGHT_MAGENTA, error_color |-> Color.RED,
   warn_color |-> Color.YELLOW, info_color |-> Color.GREEN,
   verbose_color |-> Color.BLUE, trace_color |-> Color.WHITE,
   debug_color |-> Color.BRIGHT_BLACK, pedantic_color |-> Color.BRIGHT_BLACK,
   annoying_color |-> Color.BRIGHT_BLACK,
   critical_bg_color |-> Color.NONE, error_bg_color |-> Color.NONE,
   warn_bg_color |-> Color.NONE, info_bg_color |-> Color.NONE,
   verbose_bg_color |-> Color.NONE, trace_bg_color |-> Color.NONE,
   debug_bg_color |-> Color.NONE, pedantic_bg_color |-> Color.NONE,
   annoying_bg_color |-> Color.NONE,
   source_color |-> Color.CYAN, source_bg_color |-> Color.NONE,
   message_color |-> Color.WHITE, field_key_color |-> Color.BRIGHT_CYAN,
   field_value_color |-> Color.WHITE,
   source_width |-> 12, message_fixed_width |-> 44, pad_level_text |-> TRUE]

\* _Themes.PLAIN: every colour NONE, the layout defaults
Theme_PLAIN ==
  [critical_color |-> Color.NONE, error_color |-> Color.NONE,
   warn_color |-> Color.NONE, info_color |-> Color.NONE,
   verbose_color |-> Color.NONE, trace_color |-> Color.NONE,
   debug_color |-> Color.NONE, pedantic_color |-> Color.NONE,
   annoying_color |-> Color.NONE,
   critical_bg_color |-> Color.NONE, error_bg_color |-> Color.NONE,
   warn_bg_color |-> Color.NONE, info_bg_color |-> Color.NONE,
   verbose_bg_color |-> Color.NONE, trace_bg_color |-> Color.NONE,
   debug_bg_color |-> Color.NONE, pedantic_bg_color |-> Color.NONE,
   annoying_bg_color |-> Color.NONE,
   source_color |-> Color.NONE, source_bg_color |-> Color.NONE,
   message_color |-> Color.NONE, field_key_color |-> Color.NONE,
   field_value_color |-> Color.NONE,
   source_width |-> 12, message_fixed_width |-> 44, pad_level_text |-> TRUE]

\* Theme objects are named; Config._theme holds a name or None
ThemeNames == {"DEFAULT", "PLAIN"}
ThemeOf(name) == IF name = "PLAIN" THEN Theme_PLAIN ELSE Theme_DEFAULT

\* os.getenv: the value, or None when the variable is not set
getenv(env, name) == IF name \in DOMAIN env THEN env[name] ELSE None

\* truth value of an Optional[str]
Truthy(x) == x # None /\ x # ""

\* utils.should_use_color; sys.stderr.isatty() raises ValueError on a closed stream
should_use_color(env, tty, err) ==
  IF Truthy(getenv(env, "NO_COLOR")) \/ Truthy(getenv(env, "REDLOG_NO_COLOR"))
  THEN [exc |-> "none", val |-> FALSE]
  ELSE IF Truthy(getenv(env, "FORCE_COLOR")) \/ Truthy(getenv(env, "REDLOG_FORCE_COLOR"))
  THEN [exc |-> "none", val |-> TRUE]
  ELSE IF err.closed THEN [exc |-> "ValueError", val |-> FALSE]
  ELSE [exc |-> "none", val |-> tty]

\* the escape byte 0x1b, written in caret notation
ESC == "^["

\* a colorize that drops the background code
colorize_fg_only(text, fg_color, bg_color, use) ==
  IF ~use \/ fg_color = 0 THEN text
  ELSE ESC \o "[" \o ToString(fg_color) \o "m" \o text \o ESC \o "[0m"

\* utils.colorize, given the answer of should_use_color
colorize(text, fg_color, bg_color, use) ==
  IF ~use \/ (fg_color = 0 /\ bg_color = 0) THEN text
  ELSE LET fg == IF fg_color # 0 THEN <<ToString(fg_color)>> ELSE <<>>
           bg == IF bg_color # 0 THEN <<ToString(bg_color)>> ELSE <<>>
           codes == fg \o bg
           joined == IF Len(codes) = 2 THEN codes[1] \o ";" \o codes[2] ELSE codes[1]
       IN  ESC \o "[" \o joined \o "m" \o text \o ESC \o "[0m"

---------------------------------------------------------------------------
(* formatters.py *)

\* core.LogEntry
LogEntry(level, message, source, fields, timestamp) ==
  [level |-> level, message |-> message, source |-> source, fields |-> fields,
   timestamp |-> timestamp]

Blank64 == "                                                                "

RECURSIVE Spaces(_)
\* " " * n
Spaces(n) ==
  IF n <= 0 THEN ""
  ELSE IF n <= Len(Blank64) THEN SubSeq(Blank64, 1, n)
  ELSE Blank64 \o Spaces(n - Len(Blank64))

RECURSIVE Join(_, _)
\* sep.join(parts)
Join(parts, sep) ==
  IF Len(parts) = 0 THEN ""
  ELSE IF Len(parts) = 1 THEN parts[1]
  ELSE parts[1] \o sep \o Join(Tail(parts), sep)

Max(a, b) == IF a >= b THEN a ELSE b

\* DefaultFormatter._level_color
DefaultFormatter_level_color(th, level) ==
  CASE level = CRITICAL -> th.critical_color
    [] level = ERROR    -> th.error_color
    [] level = WARN     -> th.warn_color
    [] level = INFO     -> th.info_color
    [] level = VERBOSE  -> th.verbose_color
    [] level = TRACE    -> th.trace_color
    [] level = DEBUG    -> th.debug_color
    [] level = PEDANTIC -> th.pedantic_color
    [] level = ANNOYING -> th.annoying_color
    [] OTHER            -> Color.WHITE

\* DefaultFormatter._level_bg_color
DefaultFormatter_level_bg_color(th, level) ==
  CASE level = CRITICAL -> th.critical_bg_color
    [] level = ERROR    -> th.error_bg_color
    [] level = WARN     -> th.warn_bg_color
    [] level = INFO     -> th.info_bg_color
    [] level = VERBOSE  -> th.verbose_bg_color
    [] level = TRACE    -> th.trace_bg_color
    [] level = DEBUG    -> th.debug_bg_color
    [] level = PEDANTIC -> th.pedantic_bg_color
    [] level = ANNOYING -> th.annoying_bg_color
    [] OTHER            -> Color.NONE

RECURSIVE MaxTagWidth(_, _)
MaxTagWidth(level, acc) ==
  IF level > ANNOYING THEN acc
  ELSE MaxTagWidth(level + 1, Max(acc, Len(level_short_name(level)) + 2))

\* DefaultFormatter._get_max_level_text_width
DefaultFormatter_get_max_level_text_width == MaxTagWidth(CRITICAL, 0)

\* the key=value strings of DefaultFormatter.format
FieldParts(th, fields, use) ==
  [i \in 1..Len(fields) |->
     colorize(fields[i].key, th.field_key_color, 0, use) \o "=" \o
     colorize(fields[i].value, th.field_value_color, 0, use)]

\* DefaultFormatter.format, given the answer of should_use_color
DefaultFormatter_format(th, entry, use) ==
  LET source_part == "[" \o entry.source \o "]"
      src == IF entry.source # ""
             THEN colorize(source_part, th.source_color, th.source_bg_color, use) \o
                  (IF th.source_width - Len(source_part) > 0
                   THEN Spaces(th.source_width - Len(source_part)) ELSE " ")
             ELSE Spaces(th.source_width)
      tag == "[" \o level_short_name(entry.level) \o "]"
      level_part == IF th.pad_level_text
                    THEN tag \o Spaces(DefaultFormatter_get_max_level_text_width - Len(tag))
                    ELSE tag
      lvl == colorize(level_part, DefaultFormatter_level_color(th, entry.level),
                      DefaultFormatter_level_bg_color(th, entry.level), use) \o " "
      message_colored == colorize(entry.message, th.message_color, 0, use)
      msg == IF th.message_fixed_width > 0
             THEN message_colored \o
                  Spaces(Max(1, th.message_fixed_width - Len(entry.message)))
             ELSE message_colored
      flds == IF Len(entry.fields) # 0
              THEN " " \o Join(FieldParts(th, entry.fields, use), " ") ELSE ""
  IN  src \o lvl \o msg \o flds

\* PlainFormatter.format
PlainFormatter_format(entry) ==
  LET src == IF entry.source # "" THEN <<"[" \o entry.source \o "]">> ELSE <<>>
      fld == IF Len(entry.fields) # 0
             THEN <<Join([i \in 1..Len(entry.fields) |->
                            entry.fields[i].key \o "=" \o entry.fields[i].value], " ")>>
             ELSE <<>>
  IN  Join(src \o <<"[" \o level_short_name(entry.level) \o "]", entry.message>> \o fld, " ")


\* a datetime: the date and the time of day as isoformat prints them, and
\* the microsecond
DateTime(date, hms, us) == [date |-> date, hms |-> hms, us |-> us]

\* datetime.strftime("%H:%M:%S")
strftime_HMS(ts) == ts.hms

\* the microsecond on six digits
Micro6(us) == SubSeq("000000", 1, 6 - Len(ToString(us))) \o ToString(us)

\* datetime.isoformat() of a naive datetime: the fraction only when not zero
isoformat(ts) ==
  ts.date \o "T" \o ts.hms \o (IF ts.us = 0 THEN "" ELSE "." \o Micro6(ts.us))

\* TimestampedFormatter._level_color
TimestampedFormatter_level_color(th, level) == DefaultFormatter_level_color(th, level)

\* TimestampedFormatter.format, given the answer of should_use_color
TimestampedFormatter_format(th, entry, use) ==
  LET stamp == <<"[" \o strftime_HMS(entry.timestamp) \o "]">>
      src == IF entry.source # ""
             THEN <<colorize(entry.source, th.source_color, th.source_bg_color, use)>>
             ELSE <<>>
      lvl == <<colorize(level_short_name(entry.level),
                        TimestampedFormatter_level_color(th, entry.level), 0, use) \o ":">>
      msg == <<colorize(entry.message, th.message_color, 0, use)>>
      fld == IF Len(entry.fields) # 0
             THEN <<"[" \o Join(FieldParts(th, entry.fields, use), ", ") \o "]">>
             ELSE <<>>
  IN  Join(stamp \o src \o lvl \o msg \o fld, " ")

\* Level.<member>.name
Level_name(level) ==
  CASE level = CRITICAL -> "CRITICAL"
    [] level = ERROR    -> "ERROR"
    [] level = WARN     -> "WARN"
    [] level = INFO     -> "INFO"
    [] level = VERBOSE  -> "VERBOSE"
    [] level = TRACE    -> "TRACE"
    [] level = DEBUG    -> "DEBUG"
    [] level = PEDANTIC -> "PEDANTIC"
    [] level = ANNOYING -> "ANNOYING"

UpperCase == "ABCDEFGHIJKLMNOPQRSTUVWXYZ"
LowerCase == "abcdefghijklmnopqrstuvwxyz"

\* str.lower(), character by character
RECURSIVE lower(_)
lower(s) ==
  IF Len(s) = 0 THEN ""
  ELSE LET c == SubSeq(s, 1, 1)
           hit == {i \in 1..Len(UpperCase) : SubSeq(UpperCase, i, i) = c}
       IN  (IF hit = {} THEN c
            ELSE LET i == CHOOSE i \in hit : TRUE IN SubSeq(LowerCase, i, i))
           \o lower(SubSeq(s, 2, Len(s)))

\* json.dumps of a str: quoted, with quote, backslash, newline and tab escaped
RECURSIVE json_escape(_)
json_escape(s) ==
  IF Len(s) = 0 THEN ""
  ELSE LET c == SubSeq(s, 1, 1)
       IN  (IF c = "\"" THEN "\\\""
            ELSE IF c = "\\" THEN "\\\\"
            ELSE IF c = "\n" THEN "\\n"
            ELSE IF c = "\t" THEN "\\t"
            ELSE c) \o json_escape(SubSeq(s, 2, Len(s)))

json_str(s) == "\"" \o json_escape(s) \o "\""

\* a dict assignment that keeps the value a key already has
dict_set_keep_first(items, key, value) ==
  IF \E i \in 1..Len(items) : items[i].key = key THEN items
  ELSE Append(items, [key |-> key, value |-> value])

\* d[key] = value on a dict kept as its items in insertion order
dict_set(items, key, value) ==
  IF \E i \in 1..Len(items) : items[i].key = key
  THEN [i \in 1..Len(items) |->
          IF items[i].key = key THEN [key |-> key, value |-> value] ELSE items[i]]
  ELSE Append(items, [key |-> key, value |-> value])

\* the loop `for field in entry.fields: fields_dict[field.key] = field.value`
RECURSIVE fields_dict(_, _, _)
fields_dict(fields, i, acc) ==
  IF i > Len(fields) THEN acc
  ELSE fields_dict(fields, i + 1, dict_set(acc, fields[i].key, fields[i].value))

\* json.dumps(d, separators=(",", ":")) of a dict of str to str
json_object(items) ==
  "{" \o Join([i \in 1..Len(items) |->
                 json_str(items[i].key) \o ":" \o json_str(items[i].value)], ",") \o "}"

\* a JSON format that writes "fields" always
JSONFormatter_format_always(entry) ==
  "{" \o Join(<<json_str("timestamp") \o ":" \o json_str(isoformat(entry.timestamp)),
                json_str("level") \o ":" \o json_str(lower(Level_name(entry.level))),
                json_str("source") \o ":" \o json_str(entry.source),
                json_str("message") \o ":" \o json_str(entry.message),
                json_str("fields") \o ":" \o json_object(fields_dict(entry.fields, 1, <<>>))>>,
              ",") \o "}"

\* JSONFormatter.format
JSONFormatter_format(entry) ==
  LET head == <<json_str("timestamp") \o ":" \o json_str(isoformat(entry.timestamp)),
                json_str("level") \o ":" \o json_str(lower(Level_name(entry.level))),
                json_str("source") \o ":" \o json_str(entry.source),
                json_str("message") \o ":" \o json_str(entry.message)>>
      flds == IF Len(entry.fields) # 0
              THEN <<json_str("fields") \o ":" \o
                     json_object(fields_dict(entry.fields, 1, <<>>))>>
              ELSE <<>>
  IN  "{" \o Join(head \o flds, ",") \o "}"

---------------------------------------------------------------------------
(* sinks.py and the streams under them.  A stream is [closed, out,         *)
(* flush_raises]: `out` is the sequence of lines printed to it,            *)
(* `flush_raises` tells a stream that takes text and fails to flush it.    *)
(* A stream operation answers                                              *)
(* with the exception it raised ("none" when it returned) and the stream.  *)

\* print(text, file=stream): ValueError on a closed stream
Stream_print(st, text) ==
  IF st.closed THEN [exc |-> "ValueError", st |-> st]
  ELSE [exc |-> "none", st |-> [st EXCEPT !.out = Append(@, text)]]

\* stream.flush(): ValueError on a closed stream, OSError on a stream that
\* took the text but cannot pass it on (full disk, broken pipe)
Stream_flush(st) ==
  IF st.closed THEN "ValueError" ELSE IF st.flush_raises THEN "OSError" ELSE "none"

\* ConsoleSink.write: print, then flush
ConsoleSink_write(st, formatted) ==
  LET p == Stream_print(st, formatted)
  IN  IF p.exc # "none" THEN p ELSE [exc |-> Stream_flush(p.st), st |-> p.st]

\* a write that puts the text in front of the buffer
StringSink_write_front(buffer, formatted) == <<formatted>> \o buffer

\* StringSink.write
StringSink_write(buffer, formatted) == Append(buffer, formatted)

\* a clear that leaves the buffer as it is
StringSink_clear_noop(buffer) == buffer

\* StringSink.clear
StringSink_clear(buffer) == <<>>

\* StringSink.flush: pass
StringSink_flush(buffer) == buffer

\* StringSink.get_output
StringSink_get_output(buffer) == Join(buffer, "\n")

\* The file system as open(filename, "a") sees it: the paths that can be
\* opened for appending; any other path raises OSError
OpenablePaths == {"app.log"}

\* open(filename, "a"): a new file object, or OSError
open(filename) ==
  IF filename \in OpenablePaths
  THEN [exc |-> "none", file |-> [closed |-> FALSE, out |-> <<>>, releases |-> 0, flush_raises |-> FALSE]]
  ELSE [exc |-> "OSError", file |-> [closed |-> TRUE, out |-> <<>>, releases |-> 0, flush_raises |-> FALSE]]

\* a close() that releases the handle again on every call
File_close_again(f) == [f EXCEPT !.closed = TRUE, !.releases = @ + 1]

\* file.close() of an opened file: releases the handle, unless already closed
File_close(f) == IF f.closed THEN f ELSE [f EXCEPT !.closed = TRUE, !.releases = @ + 1]

\* FileSink.__init__.  The sink is [file, should_close]: file names the object
\* self.file refers to, "file" (the one it opened) or "stderr" (sys.stderr).
\* Answers [exc, sink, opened].
FileSink_init(filename) ==
  LET o == open(filename)
  IN  IF o.exc = "none"
      THEN [exc |-> "none", sink |-> [file |-> "file", should_close |-> TRUE],
            opened |-> o.file]
      ELSE IF o.exc = "OSError"
      THEN [exc |-> "none", sink |-> [file |-> "stderr", should_close |-> FALSE],
            opened |-> o.file]
      ELSE [exc |-> o.exc, sink |-> [file |-> "stderr", should_close |-> FALSE],
            opened |-> o.file]

\* FileSink.write: print(formatted, file=self.file).  `io` is [opened, stderr];
\* a FileSink call answers [exc, opened, stderr].
FileSink_write(sink, formatted, io) ==
  IF sink.file = "file"
  THEN LET p == Stream_print(io.opened, formatted)
       IN  [exc |-> p.exc, opened |-> p.st, stderr |-> io.stderr]
  ELSE LET p == Stream_print(io.stderr, formatted)
       IN  [exc |-> p.exc, opened |-> io.opened, stderr |-> p.st]

\* FileSink.flush: self.file.flush()
FileSink_flush(sink, io) ==
  [exc |-> Stream_flush(IF sink.file = "file" THEN io.opened ELSE io.stderr),
   opened |-> io.opened, stderr |-> io.stderr]

\* a close() that closes self.file whoever owns it
FileSink_close_always(sink, io) ==
  IF sink.file = "file"
  THEN [exc |-> "none", opened |-> File_close(io.opened), stderr |-> io.stderr]
  ELSE [exc |-> "none", opened |-> io.opened,
        stderr |-> [io.stderr EXCEPT !.closed = TRUE]]

\* FileSink.close: `if self.should_close and self.file: self.file.close()`
FileSink_close(sink, io) ==
  IF ~sink.should_close THEN [exc |-> "none", opened |-> io.opened, stderr |-> io.stderr]
  ELSE IF sink.file = "file"
  THEN [exc |-> "none", opened |-> File_close(io.opened), stderr |-> io.stderr]
  ELSE [exc |-> "none", opened |-> io.opened,
        stderr |-> [io.stderr EXCEPT !.closed = TRUE]]

\* FileSink.__del__: self.close()
FileSink_del(sink, io) == FileSink_close(sink, io)

\* The sink objects of the host program: its StringSink, a ConsoleSink on
\* sys.stderr, and a host-defined Sink whose write and flush raise OSError.
\* `st` is [sinkBuf, stderr]; a sink call answers [exc, sinkBuf, stderr].
Sink_write(sink, formatted, st) ==
  IF sink = "ConsoleSink"
  THEN LET w == ConsoleSink_write(st.stderr, formatted)
       IN  [exc |-> w.exc, sinkBuf |-> st.sinkBuf, stderr |-> w.st]
  ELSE IF sink = "StringSink"
  THEN [exc |-> "none", sinkBuf |-> StringSink_write(st.sinkBuf, formatted),
        stderr |-> st.stderr]
  ELSE [exc |-> "OSError", sinkBuf |-> st.sinkBuf, stderr |-> st.stderr]

\* Sink.flush: ConsoleSink flushes its stream, StringSink does nothing
Sink_flush(sink, st) ==
  IF sink = "ConsoleSink"
  THEN [exc |-> Stream_flush(st.stderr), sinkBuf |-> st.sinkBuf, stderr |-> st.stderr]
  ELSE IF sink = "StringSink"
  THEN [exc |-> "none", sinkBuf |-> st.sinkBuf, stderr |-> st.stderr]
  ELSE [exc |-> "OSError", sinkBuf |-> st.sinkBuf, stderr |-> st.stderr]

\* `except Exception` catches every exception but the BaseException-only ones
CaughtAsException(exc) ==
  exc # "none" /\ exc \notin {"KeyboardInterrupt", "SystemExit", "GeneratorExit"}

\* The loop of MultiplexSink.write (op = "write") and MultiplexSink.flush
\* (op = "flush") from delegate i on.  `acc` is [exc, sinkBuf, stderr, done]:
\* `done` lists the delegates whose call returned, in the order of the calls.
RECURSIVE MultiplexSink_loop(_, _, _, _, _)
MultiplexSink_loop(sinks, i, op, formatted, acc) ==
  IF i > Len(sinks) THEN acc
  ELSE LET r == IF op = "write" THEN Sink_write(sinks[i], formatted, acc)
                ELSE Sink_flush(sinks[i], acc)
       IN  IF r.exc = "none"
           THEN MultiplexSink_loop(sinks, i + 1, op, formatted,
                                   r @@ [done |-> Append(acc.done, i)])
           ELSE IF CaughtAsException(r.exc)
           THEN MultiplexSink_loop(sinks, i + 1, op, formatted,
                                   [r EXCEPT !.exc = "none"] @@ [done |-> acc.done])
           ELSE r @@ [done |-> acc.done]

\* a loop with one try around it: the first failing delegate ends it
RECURSIVE MultiplexSink_loop_once(_, _, _, _, _)
MultiplexSink_loop_once(sinks, i, op, formatted, acc) ==
  IF i > Len(sinks) THEN acc
  ELSE LET r == IF op = "write" THEN Sink_write(sinks[i], formatted, acc)
                ELSE Sink_flush(sinks[i], acc)
       IN  IF r.exc = "none"
           THEN MultiplexSink_loop_once(sinks, i + 1, op, formatted,
                                        r @@ [done |-> Append(acc.done, i)])
           ELSE [r EXCEPT !.exc = "none"] @@ [done |-> acc.done]

\* a fan-out that gives up at the first failing delegate
MultiplexSink_call_once(sinks, op, formatted, st) ==
  MultiplexSink_loop_once(sinks, 1, op, formatted,
                          [exc |-> "none", sinkBuf |-> st.sinkBuf, stderr |-> st.stderr,
                           done |-> <<>>])

\* MultiplexSink.write and MultiplexSink.flush
MultiplexSink_call(sinks, op, formatted, st) ==
  MultiplexSink_loop(sinks, 1, op, formatted,
                     [exc |-> "none", sinkBuf |-> st.sinkBuf, stderr |-> st.stderr,
                      done |-> <<>>])

\* MultiplexSink.add_sink
MultiplexSink_add_sink(sinks, sink) == Append(sinks, sink)

\* The objects a Logger's formatter slot may hold: None, a PlainFormatter, a
\* DefaultFormatter built with themes.PLAIN, or a host-defined Formatter whose
\* format raises RuntimeError.
FormatterSlots == {None, "PlainFormatter", "DefaultFormatter(PLAIN)", "RaisingFormatter"}

\* The objects a Logger's sink slot may hold: None or one of the sink objects.
SinkObjects == {"StringSink", "ConsoleSink", "RaisingSink"}
SinkSlots == {None} \cup SinkObjects

---------------------------------------------------------------------------
(* core.py: Config, and the log pipeline.  `S` is the part of the program  *)
(* state a log call reads: [min_level, theme, heap, sinkBuf, stderr,       *)
(* environ, isatty].  A call answers with the state it leaves and with     *)
(* what it did.                                                            *)

\* a Config.theme that ignores what set_theme stored
Config_theme_initial(th) == "DEFAULT"

\* Config.theme (the property): reading installs themes.DEFAULT when unset
Config_theme(th) == IF th = None THEN "DEFAULT" ELSE th

\* a constructor that takes the default theme whatever the Config holds
Formatter_init_default(class, th, cfg) ==
  [formatter |-> class \o "(DEFAULT)", theme |-> Config_theme(cfg)]

\* DefaultFormatter.__init__ / TimestampedFormatter.__init__:
\* `self.theme = theme or get_theme()`, with `cfg` the Config's theme.  A
\* formatter object is named by its class and the theme it holds; answers the
\* object and the Config's theme afterwards (get_theme installs the default).
Formatter_init(class, th, cfg) ==
  IF th # None THEN [formatter |-> class \o "(" \o th \o ")", theme |-> cfg]
  ELSE [formatter |-> class \o "(" \o Config_theme(cfg) \o ")", theme |-> Config_theme(cfg)]

\* the theme a formatter object holds
CapturedTheme(formatter) ==
  IF formatter \in {"DefaultFormatter(PLAIN)", "TimestampedFormatter(PLAIN)"}
  THEN Theme_PLAIN ELSE Theme_DEFAULT

\* Logger.formatter + Formatter.format: the effective formatter applied to the
\* entry.  Answers [exc, out, theme]: theme is Config._theme afterwards.
Logger_format(lg, entry, S) ==
  LET use == should_use_color(S.environ, S.isatty, S.stderr)
  IN  IF lg.formatter = None
      THEN \* DefaultFormatter(): self.theme = theme or get_theme()
           IF use.exc # "none"
           THEN [exc |-> use.exc, out |-> "", theme |-> Config_theme(S.theme)]
           ELSE [exc |-> "none",
                 out |-> DefaultFormatter_format(ThemeOf(Config_theme(S.theme)), entry, use.val),
                 theme |-> Config_theme(S.theme)]
      ELSE IF lg.formatter \in {"DefaultFormatter(DEFAULT)", "DefaultFormatter(PLAIN)"}
      THEN IF use.exc # "none"
           THEN [exc |-> use.exc, out |-> "", theme |-> S.theme]
           ELSE [exc |-> "none",
                 out |-> DefaultFormatter_format(CapturedTheme(lg.formatter), entry, use.val),
                 theme |-> S.theme]
      ELSE IF lg.formatter \in {"TimestampedFormatter(DEFAULT)", "TimestampedFormatter(PLAIN)"}
      THEN IF use.exc # "none"
           THEN [exc |-> use.exc, out |-> "", theme |-> S.theme]
           ELSE [exc |-> "none",
                 out |-> TimestampedFormatter_format(CapturedTheme(lg.formatter), entry,
                                                     use.val),
                 theme |-> S.theme]
      ELSE IF lg.formatter = "PlainFormatter"
      THEN [exc |-> "none", out |-> PlainFormatter_format(entry), theme |-> S.theme]
      ELSE [exc |-> "RuntimeError", out |-> "", theme |-> S.theme]

\* Logger.sink + Sink.write: the effective sink's write.
\* Answers [exc, sinkBuf, stderr].
Logger_write(lg, formatted, S) ==
  Sink_write(IF lg.sink = None THEN "ConsoleSink" ELSE lg.sink, formatted, S)

\* the line of the fallback print
FallbackLine(message) == "[redlog-error] Failed to log: " \o message

\* what a call that returned at the level check did: nothing
Filtered(S) ==
  [emitted |-> FALSE, exc |-> "none", tryExc |-> "none",
   formats |-> 0, writes |-> 0, fallbacks |-> 0,
   entry |-> <<>>, formatted |-> "", message |-> "",
   theme |-> S.theme, heap |-> S.heap, sinkBuf |-> S.sinkBuf, stderr |-> S.stderr]

\* Logger._log
Logger_log(lg, level, message, fields, now, S) ==
  IF ~Logger_should_log(level, S.min_level) THEN Filtered(S)
  ELSE
    LET own   == Logger_fields(S.heap, lg)
        ext   == ExtendFields(own.heap, own.ref, fields, 1)
        entry == LogEntry(level, message, lg.name, ext.heap[ext.ref], now)
        f     == Logger_format(lg, entry, S)
        w     == IF f.exc = "none" THEN Logger_write(lg, f.out, S)
                 ELSE [exc |-> f.exc, sinkBuf |-> S.sinkBuf, stderr |-> S.stderr]
        \* the except clause: one print to sys.stderr, outside any try
        fb    == IF CaughtAsException(w.exc)
                 THEN Stream_print(w.stderr, FallbackLine(message))
                 ELSE [exc |-> w.exc, st |-> w.stderr]
    IN  [emitted |-> TRUE, exc |-> fb.exc, tryExc |-> w.exc,
         formats |-> 1, writes |-> IF f.exc = "none" THEN 1 ELSE 0,
         fallbacks |-> IF CaughtAsException(w.exc) /\ fb.exc = "none" THEN 1 ELSE 0,
         entry |-> entry.fields, formatted |-> f.out, message |-> message,
         theme |-> f.theme,
         \* the entry is dropped when the call ends: only the cells that existed remain
         heap |-> SubSeq(ext.heap, 1, Len(S.heap)),
         sinkBuf |-> w.sinkBuf, stderr |-> fb.st]

\* Logger.critical .. annoying and crt .. ayg
Logger_call(lg, m, message, fields, now, S) ==
  Logger_log(lg, MethodLevel(m), message, fields, now, S)

\* what a printf call that raised in `format_str % args` did
Raised(exc, S) ==
  [emitted |-> FALSE, exc |-> exc, tryExc |-> "none",
   formats |-> 0, writes |-> 0, fallbacks |-> 0,
   entry |-> <<>>, formatted |-> "", message |-> "",
   theme |-> S.theme, heap |-> S.heap, sinkBuf |-> S.sinkBuf, stderr |-> S.stderr]

\* a printf method that interpolates before it looks at the level
Logger_call_f_eager(lg, m, format_str, args, now, S) ==
  LET fm == FMethodResolve(m)
      r  == PercentFormat(format_str, args)
  IN  IF r.exc # "none" THEN Raised(r.exc, S) @@ [interpolated |-> TRUE]
      ELSE IF ~Logger_should_log(FMethodGuardLevel(fm), S.min_level)
      THEN Filtered(S) @@ [interpolated |-> TRUE]
      ELSE Logger_call(lg, FMethodDelegate(fm), r.out, <<>>, now, S) @@ [interpolated |-> TRUE]

\* Logger.critical_f .. annoying_f and crt_f .. ayg_f
Logger_call_f(lg, m, format_str, args, now, S) ==
  LET fm == FMethodResolve(m)
  IN  IF ~Logger_should_log(FMethodGuardLevel(fm), S.min_level)
      THEN Filtered(S) @@ [interpolated |-> FALSE]
      ELSE LET r == PercentFormat(format_str, args)
           IN  IF r.exc # "none" THEN Raised(r.exc, S) @@ [interpolated |-> TRUE]
               ELSE Logger_call(lg, FMethodDelegate(fm), r.out, <<>>, now, S)
                      @@ [interpolated |-> TRUE]


---------------------------------------------------------------------------
(* The state after `import redlog`, before the host program has done       *)
(* anything: _config = Config(), no Logger, an empty StringSink, an empty  *)
(* MultiplexSink, an open sys.stderr.                                      *)

Threads == {1, 2}

NoMuxCall ==
  [op |-> "none", text |-> "", exc |-> "none", done |-> <<>>, sinks |-> <<>>,
   bufBefore |-> <<>>, errBefore |-> <<>>, errClosed |-> FALSE]

NoCall ==
  [call |-> "none", logger |-> 0, method |-> "", min |-> INFO, message |-> "",
   format_str |-> "", args |-> <<>>, fields |-> <<>>, bound |-> <<>>,
   emitted |-> FALSE, exc |-> "none", tryExc |-> "none",
   formats |-> 0, writes |-> 0, fallbacks |-> 0,
   entry |-> <<>>, formatted |-> "", sent |-> "", interpolated |-> FALSE,
   errLen |-> 0, bufLen |-> 0, errClosed |-> FALSE]

NoDerivation == [op |-> "none", recv |-> 0, res |-> 0, arg |-> "", added |-> <<>>]

InitCfg == min_level = INFO /\ theme = None /\ lock = NoThread

NoAccess == [thread |-> NoThread, field |-> "", kind |-> "", locked |-> FALSE]
NoRead   == [thread |-> NoThread, val |-> INFO, sequential |-> FALSE, expect |-> INFO]
\* no get_theme has returned yet.  Of the last get_theme that returned, `val`
\* is its result, `expect` the argument of the last set_theme that had
\* returned when it started, `clean` whether no set_theme was in progress
\* when it started or began before it returned
NoThemeRead == [thread |-> NoThread, val |-> None, expect |-> None, clean |-> FALSE]

InitThr ==
  /\ pc = [t \in Threads |-> "idle"]
  /\ targ = [t \in Threads |-> [level |-> INFO, theme |-> None]]
  /\ tret = [t \in Threads |-> [level |-> INFO, theme |-> None, flag |-> FALSE]]
  /\ hist = [written |-> {INFO}, completed |-> INFO, overlapped |-> FALSE,
             access |-> NoAccess, read |-> NoRead,
             themeDone |-> None,
             tstart |-> [t \in Threads |-> [expect |-> None, clean |-> FALSE]],
             tread |-> NoThemeRead]

InitObj == loggers = <<>> /\ fsHeap = <<>> /\ birth = <<>> /\ derived = NoDerivation

\* no FileSink constructed yet.  `written` lists the texts whose write
\* returned, `closes` counts the close() calls made (the finaliser's included)
NoFileSink ==
  [made |-> FALSE, alive |-> FALSE, filename |-> "",
   sink |-> [file |-> "stderr", should_close |-> FALSE],
   opened |-> [closed |-> TRUE, out |-> <<>>, releases |-> 0, flush_raises |-> FALSE],
   op |-> "none", exc |-> "none", written |-> <<>>, closes |-> 0, closeExc |-> "none"]

InitIO(envs, ttys) ==
  /\ sinkBuf = <<>>
  /\ stderr = [closed |-> FALSE, out |-> <<>>, flush_raises |-> FALSE]
  /\ environ \in envs
  /\ isatty \in ttys
  /\ fsink = NoFileSink
  /\ last = NoCall

InitMux == mux = <<>> /\ muxLog = NoMuxCall

\* os.environ without any colour variable
NoEnv == [x \in {} |-> ""]

---------------------------------------------------------------------------
(* Operations of the host program on one thread. *)

CurState ==
  [min_level |-> min_level, theme |-> theme, heap |-> fsHeap, sinkBuf |-> sinkBuf,
   stderr |-> stderr, environ |-> environ, isatty |-> isatty]

\* a constructed logger enters the object store; `root` is the name its
\* lineage started with and `segs` the with_name segments applied since
Store(lg, heap, root, segs) ==
  /\ loggers' = Append(loggers, lg)
  /\ fsHeap' = heap
  /\ birth' = Append(birth, [view |-> LoggerView(heap, lg), root |-> root, segs |-> segs])

\* log = get_logger(name)
GetLogger(name, cap) ==
  /\ Len(loggers) < cap
  /\ Store(get_logger(name), fsHeap, name, <<>>)
  /\ derived' = NoDerivation
  /\ UNCHANGED <<cfgVars, thrVars, ioVars, last, muxVars>>

\* log = Logger(name, formatter, sink)
NewLogger(name, formatter, sink, cap) ==
  /\ Len(loggers) < cap
  /\ Store(Logger_init(name, formatter, sink, NoRef), fsHeap, name, <<>>)
  /\ derived' = NoDerivation
  /\ UNCHANGED <<cfgVars, thrVars, ioVars, last, muxVars>>

\* a derived logger enters the object store; the temporaries of the call die
StoreDerived(r, id, segs) ==
  LET c == Reclaim(Len(fsHeap), [heap |-> r.heap, ref |-> r.logger.fields])
  IN  Store([r.logger EXCEPT !.fields = c.ref], c.heap, birth[id].root, segs)

\* loggers[id].with_name(name)
WithName(id, name, cap) ==
  /\ id \in DOMAIN loggers
  /\ Len(loggers) < cap
  /\ Store(Logger_with_name(loggers[id], name), fsHeap,
           birth[id].root, Append(birth[id].segs, name))
  /\ derived' = [op |-> "with_name", recv |-> id, res |-> Len(loggers) + 1,
                 arg |-> name, added |-> <<>>]
  /\ UNCHANGED <<cfgVars, thrVars, ioVars, last, muxVars>>

\* loggers[id].with_field(key, value)
WithField(id, key, value, cap) ==
  /\ id \in DOMAIN loggers
  /\ Len(loggers) < cap
  /\ StoreDerived(Logger_with_field(fsHeap, loggers[id], key, value), id, birth[id].segs)
  /\ derived' = [op |-> "with_field", recv |-> id, res |-> Len(loggers) + 1,
                 arg |-> "", added |-> <<[key |-> key, value |-> stringify(value)]>>]
  /\ UNCHANGED <<cfgVars, thrVars, ioVars, last, muxVars>>

\* loggers[id].with_fields(*fields)
WithFields(id, fields, cap) ==
  /\ id \in DOMAIN loggers
  /\ Len(loggers) < cap
  /\ StoreDerived(Logger_with_fields(fsHeap, loggers[id], fields), id, birth[id].segs)
  /\ derived' = [op |-> "with_fields", recv |-> id, res |-> Len(loggers) + 1,
                 arg |-> "", added |-> fields]
  /\ UNCHANGED <<cfgVars, thrVars, ioVars, last, muxVars>>

\* set_level(level), with no other thread in the Config
SetLevel(level) ==
  /\ lock = NoThread
  /\ min_level' = level
  /\ last' = NoCall
  /\ UNCHANGED <<theme, lock, thrVars, objVars, ioVars, muxVars>>

\* the host program closes sys.stderr
CloseStderr ==
  /\ ~stderr.closed
  /\ stderr' = [stderr EXCEPT !.closed = TRUE]
  /\ last' = NoCall
  /\ UNCHANGED <<cfgVars, thrVars, objVars, sinkBuf, environ, isatty, fsink, muxVars>>

\* the state a log call leaves, and the record of what it did
Observe(r, call, id, m, message, format_str, args, fields) ==
  /\ theme' = r.theme
  /\ fsHeap' = r.heap
  /\ sinkBuf' = r.sinkBuf
  /\ stderr' = r.stderr
  /\ last' = [call |-> call, logger |-> id, method |-> m, min |-> min_level,
              message |-> message, format_str |-> format_str, args |-> args,
              fields |-> fields, bound |-> BoundFields(fsHeap, loggers[id]),
              emitted |-> r.emitted, exc |-> r.exc, tryExc |-> r.tryExc,
              formats |-> r.formats, writes |-> r.writes, fallbacks |-> r.fallbacks,
              entry |-> r.entry, formatted |-> r.formatted, sent |-> r.message,
              interpolated |-> r.interpolated,
              errLen |-> Len(stderr.out), bufLen |-> Len(sinkBuf),
              errClosed |-> stderr.closed]
  /\ UNCHANGED <<min_level, lock, thrVars, loggers, birth, derived, environ, isatty, fsink, muxVars>>

\* loggers[id].<m>(message, *fields)
Log(id, m, message, fields, now, cap) ==
  /\ id \in DOMAIN loggers
  /\ Len(sinkBuf) + Len(stderr.out) < cap
  /\ Observe(Logger_call(loggers[id], m, message, fields, now, CurState)
               @@ [interpolated |-> FALSE],
             "log", id, m, message, "", <<>>, fields)

\* loggers[id].<m>(format_str, *args)
LogF(id, m, format_str, args, now, cap) ==
  /\ id \in DOMAIN loggers
  /\ Len(sinkBuf) + Len(stderr.out) < cap
  /\ Observe(Logger_call_f(loggers[id], m, format_str, args, now, CurState),
             "logf", id, m, "", format_str, args, <<>>)


---------------------------------------------------------------------------
(* SpecFilter: one thread sets the level and calls every log method and    *)
(* every printf method of a logger from get_logger.                        *)

MaxFilterLoggers == 1
MaxFilterWrites  == 1

\* datetime.now()
Now == "12:00:00"

\* format strings and argument tuples of the printf calls: one that
\* interpolates, a wrong argument type, a missing argument, an unsupported
\* directive
PrintfInputs ==
  { <<"n=%d", <<PyInt(5)>>>>,
    <<"n=%d", <<PyStr("x")>>>>,
    <<"n=%d", <<>>>>,
    <<"%z", <<>>>> }

InitFilter == InitCfg /\ InitThr /\ InitObj /\ InitIO({NoEnv}, {FALSE}) /\ InitMux

FilterGetLogger == GetLogger("app", MaxFilterLoggers)
FilterSetLevel  == \E l \in Level : SetLevel(l)
FilterLog ==
  \E id \in DOMAIN loggers, m \in LogMethods : Log(id, m, "m", <<>>, Now, MaxFilterWrites)
FilterLogF ==
  \E id \in DOMAIN loggers, m \in PrintfMethods, fa \in PrintfInputs :
    LogF(id, m, fa[1], fa[2], Now, MaxFilterWrites)

NextFilter == FilterGetLogger \/ FilterSetLevel \/ FilterLog \/ FilterLogF

SpecFilter == InitFilter /\ [][NextFilter]_vars

\* the level a method is named after: "warn", "wrn", "warn_f" and "wrn_f" are WARN
LevelNamed(m) ==
  LET base == IF Len(m) > 2 /\ SubSeq(m, Len(m) - 1, Len(m)) = "_f"
              THEN SubSeq(m, 1, Len(m) - 2) ELSE m
  IN  CHOOSE l \in Level : level_name(l) = base \/ level_short_name(l) = base

\* the last call was a printf call whose `format_str % args` fails
InterpolationFails == PercentFormat(last.format_str, last.args).exc # "none"

\* C1: a log call at level L (full name or alias) reaches the formatter and
\* the sink, and puts one line on the stream, if and only if L <= min_level;
\* otherwise it formats nothing, writes nothing and leaves the stream alone.
C1_EmitIffLevelAtMostMin ==
  last.call = "log" =>
    IF LevelNamed(last.method) <= last.min
    THEN /\ last.emitted /\ last.formats = 1 /\ last.writes = 1
         /\ Len(stderr.out) = last.errLen + 1
    ELSE /\ ~last.emitted /\ last.formats = 0 /\ last.writes = 0
         /\ Len(stderr.out) = last.errLen /\ Len(sinkBuf) = last.bufLen

\* C1 witness: with min_level = WARN the alias wrn has emitted a line
C1_Witness ==
  /\ last.call = "log" /\ last.method = "wrn" /\ last.min = WARN
  /\ last.emitted /\ Len(stderr.out) = last.errLen + 1

\* C3 (as claimed): a printf call at an enabled level whose interpolation
\* fails does not raise and emits the error marker as its message.
C3_InterpolationFailureRecovered ==
  (last.call = "logf" /\ LevelNamed(last.method) <= last.min /\ InterpolationFails) =>
    /\ last.exc = "none"
    /\ last.emitted
    /\ last.sent = "[format_error]"

\* C4: a printf call at a level above min_level returns without evaluating
\* the interpolation, without raising, and without any formatter or sink call.
C4_FilteredPrintfSkipsInterpolation ==
  (last.call = "logf" /\ LevelNamed(last.method) > last.min) =>
    /\ ~last.interpolated
    /\ last.exc = "none"
    /\ last.formats = 0 /\ last.writes = 0 /\ last.fallbacks = 0
    /\ Len(stderr.out) = last.errLen /\ Len(sinkBuf) = last.bufLen

\* C4 witness: a filtered printf call (through an alias) whose format string
\* could not have been interpolated
C4_Witness ==
  /\ last.call = "logf" /\ last.method = "dbg_f" /\ last.min = INFO
  /\ InterpolationFails /\ last.exc = "none"


---------------------------------------------------------------------------
(* SpecPipe: one thread logs through loggers built with every combination  *)
(* of formatter and sink override, while the host program may close        *)
(* sys.stderr.                                                             *)

MaxPipeLoggers == 1
MaxPipeWrites  == 1

\* os.environ with FORCE_COLOR=1
ForceColorEnv == [x \in {"FORCE_COLOR"} |-> "1"]

InitPipe == InitCfg /\ InitThr /\ InitObj /\ InitIO({NoEnv, ForceColorEnv}, {FALSE}) /\ InitMux

PipeNewLogger ==
  \E f \in FormatterSlots, s \in SinkSlots : NewLogger("app", f, s, MaxPipeLoggers)
PipeSetLevel == \E l \in {ERROR, INFO} : SetLevel(l)
PipeLog ==
  \E id \in DOMAIN loggers, m \in {"error", "inf", "debug"} :
    Log(id, m, "m", <<>>, Now, MaxPipeWrites)
PipeLogF ==
  \E id \in DOMAIN loggers, m \in {"err_f", "debug_f"} :
    LogF(id, m, "n=%d", <<PyInt(5)>>, Now, MaxPipeWrites)

NextPipe == PipeNewLogger \/ PipeSetLevel \/ CloseStderr \/ PipeLog \/ PipeLogF

SpecPipe == InitPipe /\ [][NextPipe]_vars

\* C2 (as claimed): when the formatter's format or the sink's write raised in
\* a log call at an enabled level, the call returns normally and exactly one
\* fallback line holding the message is written to standard error.
C2_FailureNeverReachesCaller ==
  (last.call \in {"log", "logf"} /\ last.emitted /\ last.tryExc # "none") =>
    /\ last.exc = "none"
    /\ Len(stderr.out) = last.errLen + 1
    /\ stderr.out[Len(stderr.out)] = FallbackLine(last.sent)


---------------------------------------------------------------------------
(* SpecDerive: loggers are created and derived from one another.           *)

MaxLoggers == 3

DeriveFields == { <<>>, <<Field("k", PyStr("v")), Field("h", PyNone)>> }

InitDerive == InitCfg /\ InitThr /\ InitObj /\ InitIO({NoEnv}, {FALSE}) /\ InitMux

DeriveGetLogger == \E n \in {"", "a"} : GetLogger(n, MaxLoggers)
DeriveNewLogger == NewLogger("a", "PlainFormatter", "StringSink", MaxLoggers)
DeriveWithName  == \E id \in DOMAIN loggers, n \in {"", "b"} : WithName(id, n, MaxLoggers)
DeriveWithField ==
  \E id \in DOMAIN loggers, v \in {PyStr("v"), PyInt(5)} : WithField(id, "k", v, MaxLoggers)
DeriveWithFields ==
  \E id \in DOMAIN loggers, fs \in DeriveFields : WithFields(id, fs, MaxLoggers)

NextDerive ==
  DeriveGetLogger \/ DeriveNewLogger \/ DeriveWithName \/ DeriveWithField \/ DeriveWithFields

SpecDerive == InitDerive /\ [][NextDerive]_vars

\* C5: whatever is derived from a logger or from its descendants, the logger
\* keeps the name, the fields (count and order) and the overrides it was
\* constructed with; a with_field / with_fields result is another logger
\* whose fields are the receiver's followed by the added ones, and every
\* derived logger carries the receiver's formatter and sink overrides.
C5_DerivationLeavesReceiverUnchanged ==
  /\ \A id \in DOMAIN loggers : LoggerView(fsHeap, loggers[id]) = birth[id].view
  /\ derived.op # "none" =>
       LET b == loggers[derived.recv]
           d == loggers[derived.res]
       IN  /\ derived.res # derived.recv
           /\ d.formatter = b.formatter /\ d.sink = b.sink
           /\ BoundFields(fsHeap, d) = BoundFields(fsHeap, b) \o derived.added
           /\ derived.op = "with_field" =>
                Len(BoundFields(fsHeap, d)) = Len(BoundFields(fsHeap, b)) + 1
           /\ derived.op = "with_fields" =>
                Len(BoundFields(fsHeap, d)) = Len(BoundFields(fsHeap, b)) + Len(derived.added)
           /\ derived.op # "with_name" => d.name = b.name

\* C5 witness: with_field on a logger that already has a field and overrides
C5_Witness ==
  /\ derived.op = "with_field"
  /\ Len(BoundFields(fsHeap, loggers[derived.recv])) >= 1
  /\ loggers[derived.recv].formatter # None
  /\ Len(BoundFields(fsHeap, loggers[derived.res])) >= 2

\* the name with_name is documented to give
ScopedName(n, s) == IF n = "" THEN s ELSE n \o "." \o s

\* the result of the last with_name is receiver-name "." segment, or the bare
\* segment on an unnamed receiver
WithNameStep ==
  derived.op = "with_name" =>
    loggers[derived.res].name = ScopedName(loggers[derived.recv].name, derived.arg)

\* the segments of a lineage: the root's name (unless it is unnamed), then
\* the with_name arguments in call order
Segments(id) == (IF birth[id].root = "" THEN <<>> ELSE <<birth[id].root>>) \o birth[id].segs

\* C6 (as claimed): with_name follows ScopedName, and every chain of
\* with_name calls yields its segments dot-joined in call order.
C6_AnyChainIsDotJoined ==
  /\ WithNameStep
  /\ \A id \in DOMAIN loggers : loggers[id].name = Join(Segments(id), ".")

\* C6 (amended): with_name follows ScopedName for every segment, and every
\* chain of with_name calls with non-empty segments yields its segments
\* dot-joined in call order.
C6_NonEmptyChainIsDotJoined ==
  /\ WithNameStep
  /\ \A id \in DOMAIN loggers :
       (\A i \in DOMAIN birth[id].segs : birth[id].segs[i] # "") =>
         loggers[id].name = Join(Segments(id), ".")

\* C6 witness: get_logger("").with_name("b").with_name("b") is named "b.b"
C6_Witness ==
  \E id \in DOMAIN loggers :
    /\ birth[id].root = "" /\ birth[id].segs = <<"b", "b">>
    /\ loggers[id].name = "b.b"


---------------------------------------------------------------------------
(* SpecEntry: one thread binds fields to loggers and logs with per-call    *)
(* fields through a PlainFormatter into the StringSink.                    *)

MaxEntryLoggers == 3
MaxEntryWrites  == 1

\* per-call fields: none, or two (not in key order, one key already bound)
CallFields == { <<>>, <<Field("port", PyInt(5432)), Field("host", PyStr("y"))>> }

InitEntry == InitCfg /\ InitThr /\ InitObj /\ InitIO({NoEnv}, {FALSE}) /\ InitMux

EntryNewLogger == NewLogger("db", "PlainFormatter", "StringSink", MaxEntryLoggers)
EntryWithField ==
  \E id \in DOMAIN loggers : WithField(id, "host", PyStr("x"), MaxEntryLoggers)
EntrySetLevel == \E l \in {WARN, INFO} : SetLevel(l)
EntryLog ==
  \E id \in DOMAIN loggers, m \in {"info", "dbg"}, fs \in CallFields :
    Log(id, m, "m", fs, Now, MaxEntryWrites)

NextEntry == EntryNewLogger \/ EntryWithField \/ EntrySetLevel \/ EntryLog

SpecEntry == InitEntry /\ [][NextEntry]_vars

\* C7: the entry of an emitted call carries the logger's bound fields in
\* binding order followed by the per-call fields in argument order, nothing
\* reordered, dropped or merged; the logger's bound fields are afterwards
\* what they were before the call.
C7_EntryIsBoundThenCallFields ==
  (last.call = "log" /\ last.emitted) =>
    /\ last.entry = last.bound \o last.fields
    /\ BoundFields(fsHeap, loggers[last.logger]) = last.bound
    /\ \A id \in DOMAIN loggers : LoggerView(fsHeap, loggers[id]) = birth[id].view

\* C7 witness: a logger with two bound fields emitted a call with two
\* per-call fields, one of them under a bound key
C7_Witness ==
  /\ last.call = "log" /\ last.emitted
  /\ Len(last.bound) = 2 /\ Len(last.fields) = 2 /\ Len(last.entry) = 4
  /\ last.entry[1].key = "host" /\ last.entry[4].key = "host"
  /\ Len(sinkBuf) = last.bufLen + 1


---------------------------------------------------------------------------
(* SpecMux: sinks are added to the MultiplexSink, which is written to and  *)
(* flushed, while the host program may close sys.stderr.                   *)

MaxMux      == 3
MaxMuxLines == 1

\* multiplex.add_sink(sink)
MuxAddSink(sink) ==
  /\ Len(mux) < MaxMux
  /\ mux' = MultiplexSink_add_sink(mux, sink)
  /\ muxLog' = NoMuxCall
  /\ UNCHANGED <<cfgVars, thrVars, objVars, ioVars, last>>

\* multiplex.write(text) and multiplex.flush()
MuxCall(op, text) ==
  /\ Len(sinkBuf) + Len(stderr.out) < MaxMuxLines
  /\ LET r == MultiplexSink_call(mux, op, text, [sinkBuf |-> sinkBuf, stderr |-> stderr])
     IN  /\ sinkBuf' = r.sinkBuf
         /\ stderr' = r.stderr
         /\ muxLog' = [op |-> op, text |-> text, exc |-> r.exc, done |-> r.done,
                       sinks |-> mux, bufBefore |-> sinkBuf, errBefore |-> stderr.out,
                       errClosed |-> stderr.closed]
  /\ UNCHANGED <<cfgVars, thrVars, objVars, environ, isatty, fsink, last, mux>>

MuxAdd   == \E s \in SinkObjects : MuxAddSink(s)
MuxWrite == \E text \in {"x", "y"} : MuxCall("write", text)
MuxFlush == MuxCall("flush", "")

InitMuxSpec == InitCfg /\ InitThr /\ InitObj /\ InitIO({NoEnv}, {FALSE}) /\ InitMux

NextMux == MuxAdd \/ MuxWrite \/ MuxFlush \/ CloseStderr

SpecMux == InitMuxSpec /\ [][NextMux]_vars

\* whether delegate i of the last MultiplexSink call raises: the host's
\* raising sink always, a ConsoleSink when sys.stderr was closed
DelegateRaises(i) ==
  \/ muxLog.sinks[i] = "RaisingSink"
  \/ muxLog.sinks[i] = "ConsoleSink" /\ muxLog.errClosed

\* `text` repeated n times
Copies(text, n) == [i \in 1..n |-> text]

\* how many delegates of the last call are the sink `kind` and do not raise
Healthy(kind) ==
  Cardinality({i \in DOMAIN muxLog.sinks : muxLog.sinks[i] = kind /\ ~DelegateRaises(i)})

\* C8: a MultiplexSink write or flush does not raise whichever delegates do;
\* the delegates whose call returned are exactly the non-raising ones, each
\* once, in the order they were added; and a write puts the text once per
\* non-raising delegate on that delegate's destination and nowhere else.
C8_MultiplexIsolatesFailures ==
  muxLog.op # "none" =>
    /\ muxLog.exc = "none"
    /\ \A i \in DOMAIN muxLog.sinks :
         Cardinality({j \in DOMAIN muxLog.done : muxLog.done[j] = i})
           = IF DelegateRaises(i) THEN 0 ELSE 1
    /\ \A j \in DOMAIN muxLog.done : j > 1 => muxLog.done[j - 1] < muxLog.done[j]
    /\ sinkBuf = muxLog.bufBefore \o
                 Copies(muxLog.text, IF muxLog.op = "write" THEN Healthy("StringSink") ELSE 0)
    /\ stderr.out = muxLog.errBefore \o
                    Copies(muxLog.text, IF muxLog.op = "write" THEN Healthy("ConsoleSink") ELSE 0)

\* C8 witness: a write through <<raising, StringSink, raising>>-like lists: a
\* raising delegate stands before a non-raising one, which got the text
C8_Witness ==
  /\ muxLog.op = "write"
  /\ \E i, k \in DOMAIN muxLog.sinks :
       i < k /\ DelegateRaises(i) /\ muxLog.sinks[k] = "StringSink"
  /\ Len(sinkBuf) > Len(muxLog.bufBefore)


---------------------------------------------------------------------------
(* SpecConc: two threads call set_level, get_level, set_theme and          *)
(* get_theme and make the level check of a log call, interleaved at the    *)
(* granularity of the attribute reads and writes and of the lock.          *)
(* Attribute loads and stores are atomic in CPython.                       *)

\* threading.Lock: acquire passes when nobody holds the lock
Lock_acquire(holder) == holder = NoThread

\* a min_level getter that answers the default level
Config_min_level_default(value) == INFO

\* Config.min_level (the property): returns self._min_level
Config_min_level(value) == value

\* the Config access made in this step, by thread t
Access(t, field, kind) ==
  [thread |-> t, field |-> field, kind |-> kind, locked |-> lock = t]

InSetLevel(t) == pc[t] \in {"sl_acquire", "sl_write", "sl_release", "sl_return"}

\* set_level(level) is called
CallSetLevel(t, level) ==
  /\ pc[t] = "idle"
  /\ pc' = [pc EXCEPT ![t] = "sl_acquire"]
  /\ targ' = [targ EXCEPT ![t].level = level]
  /\ hist' = [hist EXCEPT !.overlapped = @ \/ \E u \in Threads \ {t} : InSetLevel(u)]
  /\ UNCHANGED <<cfgVars, tret, objVars, ioVars, last, muxVars>>

\* Config.set_level: `with self._lock:` entered
SetLevelAcquire(t) ==
  /\ pc[t] = "sl_acquire"
  /\ Lock_acquire(lock)
  /\ lock' = t
  /\ pc' = [pc EXCEPT ![t] = "sl_write"]
  /\ UNCHANGED <<min_level, theme, targ, tret, hist, objVars, ioVars, last, muxVars>>

\* Config.set_level: self._min_level = level
SetLevelWrite(t) ==
  /\ pc[t] = "sl_write"
  /\ min_level' = targ[t].level
  /\ pc' = [pc EXCEPT ![t] = "sl_release"]
  /\ hist' = [hist EXCEPT !.written = @ \cup {targ[t].level},
                          !.access = Access(t, "min_level", "write")]
  /\ UNCHANGED <<theme, lock, targ, tret, objVars, ioVars, last, muxVars>>

\* Config.set_level: the with block is left
SetLevelRelease(t) ==
  /\ pc[t] = "sl_release"
  /\ lock' = IF lock = t THEN NoThread ELSE lock
  /\ pc' = [pc EXCEPT ![t] = "sl_return"]
  /\ UNCHANGED <<min_level, theme, targ, tret, hist, objVars, ioVars, last, muxVars>>

\* set_level returns to its caller
SetLevelReturn(t) ==
  /\ pc[t] = "sl_return"
  /\ pc' = [pc EXCEPT ![t] = "idle"]
  /\ targ' = [targ EXCEPT ![t].level = INFO]
  /\ hist' = [hist EXCEPT !.completed = targ[t].level]
  /\ UNCHANGED <<cfgVars, tret, objVars, ioVars, last, muxVars>>

\* get_level(): return _config.min_level
GetLevel(t) ==
  /\ pc[t] = "idle"
  /\ tret' = [tret EXCEPT ![t].level = Config_min_level(min_level)]
  /\ hist' = [hist EXCEPT
                !.access = Access(t, "min_level", "read"),
                !.read = [thread |-> t, val |-> Config_min_level(min_level),
                          sequential |-> ~hist.overlapped /\ \A u \in Threads : ~InSetLevel(u),
                          expect |-> hist.completed]]
  /\ UNCHANGED <<cfgVars, pc, targ, objVars, ioVars, last, muxVars>>

\* Logger._should_log(level), the first step of a log call
ShouldLog(t, level) ==
  /\ pc[t] = "idle"
  /\ tret' = [tret EXCEPT ![t].flag = Logger_should_log(level, Config_min_level(min_level))]
  /\ hist' = [hist EXCEPT !.access = Access(t, "min_level", "read")]
  /\ UNCHANGED <<cfgVars, pc, targ, objVars, ioVars, last, muxVars>>

\* set_theme(th) is called
InSetTheme(t) == pc[t] \in {"st_acquire", "st_write", "st_release"}

CallSetTheme(t, th) ==
  /\ pc[t] = "idle"
  /\ pc' = [pc EXCEPT ![t] = "st_acquire"]
  /\ targ' = [targ EXCEPT ![t].theme = th]
  /\ hist' = [hist EXCEPT !.tstart = [u \in Threads |-> [@[u] EXCEPT !.clean = FALSE]]]
  /\ UNCHANGED <<cfgVars, tret, objVars, ioVars, last, muxVars>>

\* Config.set_theme: `with self._lock:` entered
SetThemeAcquire(t) ==
  /\ pc[t] = "st_acquire"
  /\ Lock_acquire(lock)
  /\ lock' = t
  /\ pc' = [pc EXCEPT ![t] = "st_write"]
  /\ UNCHANGED <<min_level, theme, targ, tret, hist, objVars, ioVars, last, muxVars>>

\* Config.set_theme: self._theme = theme
SetThemeWrite(t) ==
  /\ pc[t] = "st_write"
  /\ theme' = targ[t].theme
  /\ pc' = [pc EXCEPT ![t] = "st_release"]
  /\ hist' = [hist EXCEPT !.access = Access(t, "theme", "write")]
  /\ UNCHANGED <<min_level, lock, targ, tret, objVars, ioVars, last, muxVars>>

\* Config.set_theme: the with block is left, set_theme returns
SetThemeRelease(t) ==
  /\ pc[t] = "st_release"
  /\ lock' = IF lock = t THEN NoThread ELSE lock
  /\ pc' = [pc EXCEPT ![t] = "idle"]
  /\ hist' = [hist EXCEPT !.themeDone = targ[t].theme]
  /\ UNCHANGED <<min_level, theme, targ, tret, objVars, ioVars, last, muxVars>>

\* get_theme() / Config.theme: `if self._theme is None`
GetThemeCheck(t) ==
  /\ pc[t] = "idle"
  /\ pc' = [pc EXCEPT ![t] = IF theme = None THEN "gt_init" ELSE "gt_return"]
  /\ hist' = [hist EXCEPT !.access = Access(t, "theme", "read"),
                          !.tstart[t] = [expect |-> hist.themeDone,
                                         clean |-> \A u \in Threads : ~InSetTheme(u)]]
  /\ UNCHANGED <<cfgVars, targ, tret, objVars, ioVars, last, muxVars>>

\* Config.theme: self._theme = themes.DEFAULT
GetThemeInit(t) ==
  /\ pc[t] = "gt_init"
  /\ theme' = "DEFAULT"
  /\ pc' = [pc EXCEPT ![t] = "gt_return"]
  /\ hist' = [hist EXCEPT !.access = Access(t, "theme", "write")]
  /\ UNCHANGED <<min_level, lock, targ, tret, objVars, ioVars, last, muxVars>>

\* Config.theme: return self._theme
GetThemeReturn(t) ==
  /\ pc[t] = "gt_return"
  /\ tret' = [tret EXCEPT ![t].theme = theme]
  /\ pc' = [pc EXCEPT ![t] = "idle"]
  /\ hist' = [hist EXCEPT !.access = Access(t, "theme", "read"),
                          !.tread = [thread |-> t, val |-> theme,
                                     expect |-> hist.tstart[t].expect,
                                     clean |-> hist.tstart[t].clean]]
  /\ UNCHANGED <<cfgVars, targ, objVars, ioVars, last, muxVars>>

InitConc == InitCfg /\ InitThr /\ InitObj /\ InitIO({NoEnv}, {FALSE}) /\ InitMux

ConcSetLevel ==
  \E t \in Threads :
    \/ \E l \in {WARN, DEBUG} : CallSetLevel(t, l)
    \/ SetLevelAcquire(t)
    \/ SetLevelWrite(t)
    \/ SetLevelRelease(t)
    \/ SetLevelReturn(t)
ConcGetLevel == \E t \in Threads : GetLevel(t)
ConcShouldLog == \E t \in Threads, l \in {ERROR, VERBOSE} : ShouldLog(t, l)
ConcSetTheme ==
  \E t \in Threads :
    \/ CallSetTheme(t, "PLAIN")
    \/ SetThemeAcquire(t)
    \/ SetThemeWrite(t)
    \/ SetThemeRelease(t)
ConcGetTheme ==
  \E t \in Threads : GetThemeCheck(t) \/ GetThemeInit(t) \/ GetThemeReturn(t)

NextConc == ConcSetLevel \/ ConcGetLevel \/ ConcShouldLog

SpecConc == InitConc /\ [][NextConc]_vars

\* SpecTheme: the same two threads on the theme of the Config
NextTheme == ConcSetTheme \/ ConcGetTheme

SpecTheme == InitConc /\ [][NextTheme]_vars

\* C9 (as claimed): every read and every write of min_level and of theme is
\* made by a thread that holds the Config's lock.
C9_EveryAccessHoldsLock ==
  hist.access.thread # NoThread => hist.access.locked

\* C10: get_level returns a value that a set_level call wrote (or the initial
\* INFO); and while set_level calls have not overlapped each other or the
\* read, it returns the argument of the last set_level call that completed
\* (INFO before any).
C10_GetLevelReturnsLastSet ==
  hist.read.thread # NoThread =>
    /\ hist.read.val \in hist.written
    /\ hist.read.sequential => hist.read.val = hist.read.expect

\* C10 witness: a get_level, made after two set_level calls that did not
\* overlap, returned the argument of the second
C10_Witness ==
  /\ hist.read.thread # NoThread /\ hist.read.sequential
  /\ hist.written = {INFO, WARN, DEBUG}
  /\ hist.read.val = DEBUG /\ hist.read.expect = DEBUG


---------------------------------------------------------------------------
(* SpecLock: two threads make log calls on one logger (default formatter,  *)
(* StringSink), step by step - level check, formatter, sink - while either *)
(* may also be inside set_level or set_theme.  A thread may stop anywhere. *)

MaxLockLines == 2

\* the logger both threads log through
LockLogger == Logger_init("w", None, "StringSink", NoRef)

\* the message thread t logs
LockMessage(t) == IF t = 1 THEN "one" ELSE "two"

InLog(t) == pc[t] \in {"lg_check", "lg_format", "lg_write"}

\* logger.<m>(message) is called
CallLog(t, level) ==
  /\ pc[t] = "idle"
  /\ Len(sinkBuf) + Cardinality({u \in Threads : InLog(u)}) < MaxLockLines
  /\ pc' = [pc EXCEPT ![t] = "lg_check"]
  /\ targ' = [targ EXCEPT ![t].level = level]
  /\ tret' = [tret EXCEPT ![t].flag = \E u \in Threads \ {t} : pc[u] = "lg_write"]
  /\ UNCHANGED <<cfgVars, hist, objVars, ioVars, last, muxVars>>

\* a level check that takes the Config lock and keeps it for the call
LogCheck_locked(t) ==
  /\ pc[t] = "lg_check"
  /\ Lock_acquire(lock)
  /\ lock' = t
  /\ pc' = [pc EXCEPT ![t] =
              IF Logger_should_log(targ[t].level, Config_min_level(min_level))
              THEN "lg_format" ELSE "idle"]
  /\ hist' = [hist EXCEPT !.access = Access(t, "min_level", "read")]
  /\ UNCHANGED <<min_level, theme, targ, tret, objVars, ioVars, last, muxVars>>

\* Logger._log: `if not self._should_log(level): return`
LogCheck(t) ==
  /\ pc[t] = "lg_check"
  /\ pc' = [pc EXCEPT ![t] =
              IF Logger_should_log(targ[t].level, Config_min_level(min_level))
              THEN "lg_format" ELSE "idle"]
  /\ hist' = [hist EXCEPT !.access = Access(t, "min_level", "read")]
  /\ UNCHANGED <<cfgVars, targ, tret, objVars, ioVars, last, muxVars>>

\* Logger._log: self.formatter builds DefaultFormatter() on the theme of
\* the Config (installing the default when unset), which formats the entry
LogFormat(t) ==
  /\ pc[t] = "lg_format"
  /\ theme' = Config_theme(theme)
  /\ tret' = [tret EXCEPT ![t].theme = Config_theme(theme)]
  /\ pc' = [pc EXCEPT ![t] = "lg_write"]
  /\ hist' = [hist EXCEPT !.access = Access(t, "theme", "read")]
  /\ UNCHANGED <<min_level, lock, targ, objVars, ioVars, last, muxVars>>

\* Logger._log: self.sink.write(formatted), and the call returns
LogWrite(t) ==
  /\ pc[t] = "lg_write"
  /\ LET entry == LogEntry(targ[t].level, LockMessage(t), LockLogger.name, <<>>, "12:00:00")
         w == Logger_write(LockLogger,
                           DefaultFormatter_format(ThemeOf(tret[t].theme), entry, FALSE),
                           CurState)
     IN  sinkBuf' = w.sinkBuf
  /\ pc' = [pc EXCEPT ![t] = "idle"]
  /\ UNCHANGED <<cfgVars, targ, tret, hist, objVars, stderr, environ, isatty, fsink, last, muxVars>>

\* the next step of thread t's log call
LogStep(t) == LogCheck(t) \/ LogFormat(t) \/ LogWrite(t)

LockLog ==
  \E t \in Threads :
    \/ \E l \in {INFO, DEBUG} : CallLog(t, l)
    \/ LogStep(t)
LockSetLevel ==
  \E t \in Threads :
    \/ CallSetLevel(t, DEBUG)
    \/ SetLevelAcquire(t)
    \/ SetLevelWrite(t)
    \/ SetLevelRelease(t)
    \/ SetLevelReturn(t)

NextLock == LockLog \/ LockSetLevel \/ ConcSetTheme

SpecLock == InitConc /\ [][NextLock]_vars

\* C11: a thread inside a log call never holds the Config lock, and the next
\* step of its log call can always be taken, whatever the other thread is
\* doing (holding the lock, or stopped in its own formatter or sink).
C11_LogCallNeverHoldsOrWaits ==
  \A t \in Threads : InLog(t) => lock # t /\ ENABLED LogStep(t)

\* C11 witness: thread 2 started a log call while thread 1 was stopped inside
\* its sink, and has written its line and returned; thread 1 is still there
C11_Witness ==
  /\ pc[1] = "lg_write" /\ pc[2] = "idle" /\ tret[2].flag
  /\ Len(sinkBuf) = 1
  /\ sinkBuf[1] = DefaultFormatter_format(Theme_DEFAULT,
                     LogEntry(INFO, "two", "w", <<>>, "12:00:00"), FALSE)


---------------------------------------------------------------------------
(* SpecFile: the host program constructs a FileSink, writes, flushes and   *)
(* closes it any number of times, and finally drops it (__del__).          *)

MaxFileLines  == 2
MaxFileCloses == 2

FileIO == [opened |-> fsink.opened, stderr |-> stderr]

\* sink = FileSink(filename)
FileNew(filename) ==
  /\ ~fsink.made
  /\ LET r == FileSink_init(filename)
     IN  fsink' = [NoFileSink EXCEPT !.made = r.exc = "none", !.alive = r.exc = "none",
                                     !.filename = filename, !.sink = r.sink,
                                     !.opened = r.opened, !.op = "init", !.exc = r.exc]
  /\ UNCHANGED <<cfgVars, thrVars, objVars, sinkBuf, stderr, environ, isatty, last, muxVars>>

\* sink.write(text)
FileWrite(text) ==
  /\ fsink.alive
  /\ Len(fsink.written) < MaxFileLines
  /\ LET r == FileSink_write(fsink.sink, text, FileIO)
     IN  /\ fsink' = [fsink EXCEPT !.opened = r.opened, !.op = "write", !.exc = r.exc,
                                   !.written = IF r.exc = "none" THEN Append(@, text) ELSE @]
         /\ stderr' = r.stderr
  /\ UNCHANGED <<cfgVars, thrVars, objVars, sinkBuf, environ, isatty, last, muxVars>>

\* sink.flush()
FileFlush ==
  /\ fsink.alive
  /\ LET r == FileSink_flush(fsink.sink, FileIO)
     IN  /\ fsink' = [fsink EXCEPT !.opened = r.opened, !.op = "flush", !.exc = r.exc]
         /\ stderr' = r.stderr
  /\ UNCHANGED <<cfgVars, thrVars, objVars, sinkBuf, environ, isatty, last, muxVars>>

\* sink.close()
FileClose ==
  /\ fsink.alive
  /\ fsink.closes < MaxFileCloses
  /\ LET r == FileSink_close(fsink.sink, FileIO)
     IN  /\ fsink' = [fsink EXCEPT !.opened = r.opened, !.op = "close", !.exc = r.exc,
                                   !.closes = @ + 1,
                                   !.closeExc = IF r.exc # "none" THEN r.exc ELSE @]
         /\ stderr' = r.stderr
  /\ UNCHANGED <<cfgVars, thrVars, objVars, sinkBuf, environ, isatty, last, muxVars>>

\* the last reference to the sink is dropped: __del__ runs
FileDel ==
  /\ fsink.alive
  /\ LET r == FileSink_del(fsink.sink, FileIO)
     IN  /\ fsink' = [fsink EXCEPT !.opened = r.opened, !.op = "del", !.exc = r.exc,
                                   !.alive = FALSE, !.closes = @ + 1,
                                   !.closeExc = IF r.exc # "none" THEN r.exc ELSE @]
         /\ stderr' = r.stderr
  /\ UNCHANGED <<cfgVars, thrVars, objVars, sinkBuf, environ, isatty, last, muxVars>>

InitFile == InitCfg /\ InitThr /\ InitObj /\ InitIO({NoEnv}, {FALSE}) /\ InitMux

FilePaths == {"app.log", "/nonexistent_dir/x.log", "/"}

FileConstruct == \E f \in FilePaths : FileNew(f)
FileWrites == \E text \in {"a", "b"} : FileWrite(text)

NextFile == FileConstruct \/ FileWrites \/ FileFlush \/ FileClose \/ FileDel

SpecFile == InitFile /\ [][NextFile]_vars

C13_OwnedHandleReleasedOnce ==
  (fsink.made /\ fsink.sink.should_close) =>
    /\ fsink.sink.file = "file"
    /\ fsink.opened.releases = (IF fsink.closes > 0 THEN 1 ELSE 0)
    /\ fsink.opened.closed = (fsink.closes > 0)
    /\ fsink.closeExc = "none"
    /\ fsink.op \in {"close", "del"} => fsink.exc = "none"

\* C13 witness: an owning sink was closed twice and then finalised
C13_Witness ==
  /\ fsink.made /\ fsink.sink.should_close /\ ~fsink.alive
  /\ fsink.closes = MaxFileCloses + 1
  /\ fsink.opened.releases = 1


---------------------------------------------------------------------------
(* SpecString: write, flush, clear and get_output on one StringSink.       *)
(* `last` records the call made, the strings written since the last clear  *)
(* (kept by the caller) and what get_output returned.                      *)

MaxStringLines == 3

StringCall(call, since, out) == [call |-> call, since |-> since, out |-> out]

Since == IF last = NoCall THEN <<>> ELSE last.since

\* sink.write(text)
StringWrite(text) ==
  /\ Len(sinkBuf) < MaxStringLines
  /\ sinkBuf' = StringSink_write(sinkBuf, text)
  /\ last' = StringCall("write", Append(Since, text), "")
  /\ UNCHANGED <<cfgVars, thrVars, objVars, stderr, environ, isatty, fsink, muxVars>>

\* sink.flush()
StringFlush ==
  /\ sinkBuf' = StringSink_flush(sinkBuf)
  /\ last' = StringCall("flush", Since, "")
  /\ UNCHANGED <<cfgVars, thrVars, objVars, stderr, environ, isatty, fsink, muxVars>>

\* sink.clear()
StringClear ==
  /\ sinkBuf' = StringSink_clear(sinkBuf)
  /\ last' = StringCall("clear", <<>>, "")
  /\ UNCHANGED <<cfgVars, thrVars, objVars, stderr, environ, isatty, fsink, muxVars>>

\* sink.get_output()
StringGetOutput ==
  /\ last' = StringCall("get_output", Since, StringSink_get_output(sinkBuf))
  /\ UNCHANGED <<cfgVars, thrVars, objVars, ioVars, muxVars>>

StringWrites == \E text \in {"a", "", "b c"} : StringWrite(text)

InitString == InitCfg /\ InitThr /\ InitObj /\ InitIO({NoEnv}, {FALSE}) /\ InitMux

NextString == StringWrites \/ StringFlush \/ StringClear \/ StringGetOutput

SpecString == InitString /\ [][NextString]_vars

\* the strings, each but the first preceded by a newline
RECURSIVE NewlineJoined(_)
NewlineJoined(strs) ==
  IF Len(strs) = 0 THEN ""
  ELSE IF Len(strs) = 1 THEN strs[1]
  ELSE NewlineJoined(SubSeq(strs, 1, Len(strs) - 1)) \o "\n" \o strs[Len(strs)]

\* C14: the buffer is exactly the strings written since the last clear, in
\* write order (so flush changed nothing), and get_output returned them
\* joined by a newline, the empty string when there are none.
C14_BufferIsWritesSinceClear ==
  /\ sinkBuf = Since
  /\ (last # NoCall /\ last.call = "get_output") =>
       /\ last.out = NewlineJoined(Since)
       /\ Since = <<>> => last.out = ""

\* C14 witness: get_output returned two written strings on two lines
C14_Witness ==
  /\ last # NoCall /\ last.call = "get_output"
  /\ last.since = <<"a", "b c">>
  /\ last.out = "a\nb c"


---------------------------------------------------------------------------
(* SpecRender: the host program builds one FieldSet by add and hands       *)
(* entries carrying it to the Default, Timestamped and JSON formatters,    *)
(* under themes of several column widths, with and without colour.         *)
(* `birth` is the caller's own record of the fields it added, `last` the   *)
(* last format call and what it returned.                                  *)

MaxRenderFields == 3

RenderFields == {Field("k", PyInt(1)), Field("k", PyInt(2)), Field("status", PyInt(500))}
RenderSourceWidths == {4, 12}
RenderMessageWidths == {0, 3, 44}
RenderThemes ==
  {[Theme_DEFAULT EXCEPT !.source_width = sw, !.message_fixed_width = mw] :
     sw \in RenderSourceWidths, mw \in RenderMessageWidths}
RenderSources == {"", "a", "db", "http"}
RenderMessages == {"", "hi", "a\nb", "failed"}
RenderTimes == {DateTime("2024-01-15", "10:30:00", 0), DateTime("2024-01-15", "10:30:00", 123)}
RenderFormatters == {"DefaultFormatter", "TimestampedFormatter", "JSONFormatter"}

\* formatter.format(entry) for a formatter object of the given class and theme
Formatter_format(formatter, th, entry, use) ==
  IF formatter = "DefaultFormatter" THEN DefaultFormatter_format(th, entry, use)
  ELSE IF formatter = "TimestampedFormatter" THEN TimestampedFormatter_format(th, entry, use)
  ELSE JSONFormatter_format(entry)

\* fs = FieldSet()
RenderNew ==
  /\ fsHeap = <<>>
  /\ fsHeap' = FieldSet_init(fsHeap, <<>>).heap
  /\ birth' = <<>>
  /\ last' = NoCall
  /\ UNCHANGED <<cfgVars, thrVars, loggers, derived, sinkBuf, stderr, environ, isatty, fsink, muxVars>>

\* fs.add(field)
RenderAdd(field) ==
  /\ Len(fsHeap) = 1
  /\ Len(fsHeap[1]) < MaxRenderFields
  /\ fsHeap' = FieldSet_add(fsHeap, 1, field)
  /\ birth' = Append(birth, field)
  /\ last' = NoCall
  /\ UNCHANGED <<cfgVars, thrVars, loggers, derived, sinkBuf, stderr, environ, isatty, fsink, muxVars>>

\* formatter.format(LogEntry(level, message, source, fs, ts))
RenderFormat(formatter, th, level, message, source, ts) ==
  /\ Len(fsHeap) = 1
  /\ last = NoCall    \* format changes nothing: one call per FieldSet state
  /\ LET use == should_use_color(environ, isatty, stderr)
         entry == LogEntry(level, message, source, fsHeap[1], ts)
     IN  last' = [call |-> "format", formatter |-> formatter, theme |-> th,
                  use |-> use.val, entry |-> entry,
                  out |-> Formatter_format(formatter, th, entry, use.val)]
  /\ UNCHANGED <<cfgVars, thrVars, objVars, ioVars, muxVars>>

RenderAdds == \E f \in RenderFields : RenderAdd(f)
RenderFormats ==
  \E formatter \in RenderFormatters, th \in RenderThemes, level \in {ERROR, INFO},
     message \in RenderMessages, source \in RenderSources, ts \in RenderTimes :
    RenderFormat(formatter, th, level, message, source, ts)

InitRender == InitCfg /\ InitThr /\ InitObj /\ InitIO({NoEnv, ForceColorEnv}, {FALSE}) /\ InitMux

NextRender == RenderNew \/ RenderAdds \/ RenderFormats

SpecRender == InitRender /\ [][NextRender]_vars

\* the last call was a format call of the given formatter
Rendered(formatter) == last # NoCall /\ last.formatter = formatter

EndsWith(s, t) == Len(s) >= Len(t) /\ SubSeq(s, Len(s) - Len(t) + 1, Len(s)) = t
StartsWith(s, t) == Len(s) >= Len(t) /\ SubSeq(s, 1, Len(t)) = t

\* the text as a terminal shows it: without the colour sequences ESC [ .. m
RECURSIVE Visible(_)
Visible(s) ==
  IF Len(s) = 0 THEN ""
  ELSE IF StartsWith(s, ESC \o "[")
  THEN LET m == CHOOSE i \in 1..Len(s) :
                  SubSeq(s, i, i) = "m" /\ \A j \in 1..(i - 1) : SubSeq(s, j, j) # "m"
       IN  Visible(SubSeq(s, m + 1, Len(s)))
  ELSE SubSeq(s, 1, 1) \o Visible(SubSeq(s, 2, Len(s)))

\* strs[1] sep strs[2] sep ... built from the right
RECURSIVE SepJoined(_, _)
SepJoined(strs, sep) ==
  IF Len(strs) = 0 THEN ""
  ELSE IF Len(strs) = 1 THEN strs[1]
  ELSE SepJoined(SubSeq(strs, 1, Len(strs) - 1), sep) \o sep \o strs[Len(strs)]

\* key=value of each added field, in the order the caller added them
AddedPairs == [i \in 1..Len(birth) |-> birth[i].key \o "=" \o birth[i].value]

\* the keys added, each once, in the order of their first add
AddedKeys ==
  LET firsts == {i \in 1..Len(birth) : \A j \in 1..(i - 1) : birth[j].key # birth[i].key}
      nth[n \in 1..Cardinality(firsts)] ==
        CHOOSE i \in firsts : Cardinality({j \in firsts : j < i}) = n - 1
  IN  [n \in 1..Cardinality(firsts) |-> birth[nth[n]].key]

\* the value of the last field added under the key
LastValue(key) ==
  birth[CHOOSE i \in 1..Len(birth) :
          birth[i].key = key /\ \A j \in (i + 1)..Len(birth) : birth[j].key # key].value

HasDuplicateKey == \E i, j \in 1..Len(birth) : i < j /\ birth[i].key = birth[j].key

\* C15: a FieldSet keeps every added field in insertion order, duplicates of
\* a key included; as displayed, the Default formatter's line ends with one
\* space and all key=value pairs space-joined, the Timestamped formatter's
\* with all pairs comma-joined in one bracket; the JSON formatter's fields
\* object has each key once, with the value of the last field added under it.
C15_DuplicateKeysKeptInTextLastInJson ==
  /\ Len(fsHeap) = 1 => fsHeap[1] = birth
  /\ (HasDuplicateKey /\ last # NoCall) =>
       /\ last.entry.fields = birth
       /\ last.formatter = "DefaultFormatter" =>
            EndsWith(Visible(last.out), " " \o SepJoined(AddedPairs, " "))
       /\ last.formatter = "TimestampedFormatter" =>
            EndsWith(Visible(last.out), " [" \o SepJoined(AddedPairs, ", ") \o "]")
       /\ last.formatter = "JSONFormatter" =>
            EndsWith(last.out,
                     ",\"fields\":{" \o
                     SepJoined([n \in 1..Len(AddedKeys) |->
                                  "\"" \o AddedKeys[n] \o "\":\"" \o
                                  LastValue(AddedKeys[n]) \o "\""], ",") \o "}}")

\* C15 witness: k=1, status=500, k=2 were added and the JSON formatter returned a
\* fields object with k once, holding 2
C15_Witness ==
  /\ Rendered("JSONFormatter")
  /\ birth = <<Field("k", PyInt(1)), Field("status", PyInt(500)), Field("k", PyInt(2))>>
  /\ EndsWith(last.out, ",\"fields\":{\"k\":\"2\",\"status\":\"500\"}}")


---------------------------------------------------------------------------
(* SpecFieldSet: the host program creates FieldSets, derives new ones with *)
(* with_field / with_fields and changes any of them in place with add /    *)
(* merge.  `birth` holds, per FieldSet object, what the caller expects it  *)
(* to contain from the calls made on that object alone, and the object it  *)
(* was derived from; `derived` is the last call.                           *)

MaxFieldSets == 2
MaxSetFields == 2

SetFields == {Field("a", PyInt(1)), Field("b", PyStr("x"))}

Expect(fields, parent) == [fields |-> fields, parent |-> parent]

\* fs = FieldSet()
FsNew ==
  /\ Len(fsHeap) < MaxFieldSets
  /\ fsHeap' = FieldSet_init(fsHeap, <<>>).heap
  /\ birth' = Append(birth, Expect(<<>>, NoRef))
  /\ derived' = [op |-> "new", recv |-> NoRef, res |-> Len(fsHeap) + 1, arg |-> "",
                 added |-> <<>>]
  /\ UNCHANGED <<cfgVars, thrVars, loggers, ioVars, last, muxVars>>

\* fs.add(field)
FsAdd(r, field) ==
  /\ r \in DOMAIN fsHeap
  /\ Len(fsHeap[r]) < MaxSetFields
  /\ fsHeap' = FieldSet_add(fsHeap, r, field)
  /\ birth' = [birth EXCEPT ![r].fields = Append(@, field)]
  /\ derived' = [op |-> "add", recv |-> r, res |-> NoRef, arg |-> "", added |-> <<field>>]
  /\ UNCHANGED <<cfgVars, thrVars, loggers, ioVars, last, muxVars>>

\* fs.merge(other)
FsMerge(r, o) ==
  /\ r \in DOMAIN fsHeap /\ o \in DOMAIN fsHeap
  /\ Len(fsHeap[r]) + Len(fsHeap[o]) <= MaxSetFields
  /\ fsHeap' = FieldSet_merge(fsHeap, r, o)
  /\ birth' = [birth EXCEPT ![r].fields = @ \o birth[o].fields]
  /\ derived' = [op |-> "merge", recv |-> r, res |-> NoRef, arg |-> "",
                 added |-> birth[o].fields]
  /\ UNCHANGED <<cfgVars, thrVars, loggers, ioVars, last, muxVars>>

\* fs2 = fs.with_field(field)
FsWithField(r, field) ==
  /\ r \in DOMAIN fsHeap
  /\ Len(fsHeap) < MaxFieldSets
  /\ Len(fsHeap[r]) < MaxSetFields
  /\ LET new == FieldSet_with_field(fsHeap, r, field)
     IN  /\ fsHeap' = new.heap
         /\ derived' = [op |-> "with_field", recv |-> r, res |-> new.ref, arg |-> "",
                        added |-> <<field>>]
  /\ birth' = Append(birth, Expect(Append(birth[r].fields, field), r))
  /\ UNCHANGED <<cfgVars, thrVars, loggers, ioVars, last, muxVars>>

\* fs2 = fs.with_fields(other)
FsWithFields(r, o) ==
  /\ r \in DOMAIN fsHeap /\ o \in DOMAIN fsHeap
  /\ Len(fsHeap) < MaxFieldSets
  /\ Len(fsHeap[r]) + Len(fsHeap[o]) <= MaxSetFields
  /\ LET new == FieldSet_with_fields(fsHeap, r, o)
     IN  /\ fsHeap' = new.heap
         /\ derived' = [op |-> "with_fields", recv |-> r, res |-> new.ref, arg |-> "",
                        added |-> birth[o].fields]
  /\ birth' = Append(birth, Expect(birth[r].fields \o birth[o].fields, r))
  /\ UNCHANGED <<cfgVars, thrVars, loggers, ioVars, last, muxVars>>

FsInPlace ==
  \E r \in DOMAIN fsHeap :
    \/ \E f \in SetFields : FsAdd(r, f)
    \/ \E o \in DOMAIN fsHeap : FsMerge(r, o)
FsDerive ==
  \E r \in DOMAIN fsHeap :
    \/ \E f \in SetFields : FsWithField(r, f)
    \/ \E o \in DOMAIN fsHeap : FsWithFields(r, o)

InitFieldSet == InitCfg /\ InitThr /\ InitObj /\ InitIO({NoEnv}, {FALSE}) /\ InitMux

NextFieldSet == FsNew \/ FsInPlace \/ FsDerive

SpecFieldSet == InitFieldSet /\ [][NextFieldSet]_vars

DefaultTail == IF Len(birth) = 0 THEN "" ELSE " " \o SepJoined(AddedPairs, " ")

\* n spaces
Blanks(n) == SubSeq(Blank64, 1, n)

\* C17 (as claimed): under every theme, the Default formatter's displayed
\* line is the message followed by max(1, message_fixed_width - len(message))
\* spaces - at least one - and then the fields part, if any.
C17_MessagePaddedByAtLeastOne ==
  Rendered("DefaultFormatter") =>
    LET w == last.theme.message_fixed_width - Len(last.entry.message)
    IN  EndsWith(Visible(last.out),
                 last.entry.message \o Blanks(IF w > 1 THEN w ELSE 1) \o DefaultTail)


\* the column (from 1) at which the text first occurs in the line, 0 if never
FirstColumn(line, text) ==
  LET at == {i \in 1..Len(line) : StartsWith(SubSeq(line, i, Len(line)), text)}
  IN  IF at = {} THEN 0 ELSE CHOOSE i \in at : \A j \in at : i <= j

\* the column of the level tag in the displayed line the Default formatter
\* gives the last entry when its source is the given one
LevelColumn(source) ==
  FirstColumn(Visible(DefaultFormatter_format(last.theme,
                                              [last.entry EXCEPT !.source = source],
                                              last.use)),
              "[" \o level_short_name(last.entry.level) \o "]")

\* C18 (as claimed): in the Default formatter's displayed line the source tag
\* takes the same number of columns for every source name, so the level tag
\* starts at the same column whatever the source is.
C18_LevelTagColumnSameForEverySource ==
  Rendered("DefaultFormatter") =>
    \A source \in RenderSources :
      LevelColumn(source) = FirstColumn(Visible(last.out),
                                        "[" \o level_short_name(last.entry.level) \o "]")


\* the characters of a string
Chars(s) == {SubSeq(s, i, i) : i \in 1..Len(s)}

\* what a JSON reader must see between the quotes for the text
JsonText(text) == IF text = "a\nb" THEN "a\\nb" ELSE text

\* the ISO-8601 text of the timestamps the entries carry
IsoText(ts) ==
  IF ts.us = 0 THEN "2024-01-15T10:30:00" ELSE "2024-01-15T10:30:00.000123"

\* the lowercase full name of the levels the entries carry
LowerName(level) == IF level = ERROR THEN "error" ELSE "info"

\* the fields member of the object: absent without fields, else each key
\* once with its string value
FieldsMember ==
  IF Len(birth) = 0 THEN ""
  ELSE ",\"fields\":{" \o
       SepJoined([n \in 1..Len(AddedKeys) |->
                    "\"" \o AddedKeys[n] \o "\":\"" \o LastValue(AddedKeys[n]) \o "\""],
                 ",") \o "}"

\* C20: JSONFormatter.format returns one line holding a JSON object with the
\* members timestamp (ISO-8601), level (lowercase full name), source and
\* message in this order, followed by a fields object of key to string value
\* exactly when the entry's FieldSet is not empty.
C20_JsonObjectOnOneLine ==
  Rendered("JSONFormatter") =>
    /\ "\n" \notin Chars(last.out)
    /\ last.out = "{\"timestamp\":\"" \o IsoText(last.entry.timestamp) \o
                  "\",\"level\":\"" \o LowerName(last.entry.level) \o
                  "\",\"source\":\"" \o JsonText(last.entry.source) \o
                  "\",\"message\":\"" \o JsonText(last.entry.message) \o "\"" \o
                  FieldsMember \o "}"

\* C20 witness: the entry ERROR / "http" / "failed" with the one field
\* status=500 was formatted to the object of the scenario
C20_Witness ==
  /\ Rendered("JSONFormatter")
  /\ last.entry.level = ERROR
  /\ birth = <<Field("status", PyInt(500))>>
  /\ last.out = "{\"timestamp\":\"2024-01-15T10:30:00\",\"level\":\"error\"," \o
                "\"source\":\"http\",\"message\":\"failed\"," \o
                "\"fields\":{\"status\":\"500\"}}"


---------------------------------------------------------------------------
(* SpecThemed: one thread creates loggers with and without a formatter     *)
(* override, sets the global theme and logs, in any order.  targ[1].theme  *)
(* keeps the argument of the last set_theme call; `derived` tells that no  *)
(* logger was created since.                                               *)

MaxThemedLoggers == 2
MaxThemedWrites  == 2

\* set_theme(th), with no other thread in the Config
SetTheme(th) ==
  /\ lock = NoThread
  /\ theme' = th
  /\ targ' = [targ EXCEPT ![1].theme = th]
  /\ derived' = [NoDerivation EXCEPT !.op = "set_theme", !.arg = th]
  /\ last' = NoCall
  /\ UNCHANGED <<min_level, lock, pc, tret, hist, loggers, fsHeap, birth, ioVars, muxVars>>

InitThemed == InitCfg /\ InitThr /\ InitObj /\ InitIO({NoEnv, ForceColorEnv}, {FALSE}) /\ InitMux

ThemedGetLogger == GetLogger("app", MaxThemedLoggers)
ThemedNewLogger ==
  \E f \in {"PlainFormatter", "DefaultFormatter(PLAIN)"} :
    NewLogger("app", f, "StringSink", MaxThemedLoggers)
ThemedSetTheme == \E th \in ThemeNames : SetTheme(th)
ThemedLog ==
  \E id \in DOMAIN loggers, m \in {"error", "inf"} :
    Log(id, m, "m", <<>>, Now, MaxThemedWrites)

NextThemed == ThemedGetLogger \/ ThemedNewLogger \/ ThemedSetTheme \/ ThemedLog

SpecThemed == InitThemed /\ [][NextThemed]_vars

\* the theme in force: the argument of the last set_theme, the default
\* theme before any
CurrentTheme == IF targ[1].theme = None THEN Theme_DEFAULT ELSE ThemeOf(targ[1].theme)

\* the entry of the last log call, and the line the Default formatter makes
\* of it under a theme
LastEntry ==
  LogEntry(MethodLevel(last.method), last.sent, loggers[last.logger].name,
           last.entry, Now)
LineUnder(th) ==
  DefaultFormatter_format(th, LastEntry, should_use_color(environ, isatty, stderr).val)

\* C19: a log call of a logger without a formatter override is rendered by
\* the Default formatter under the theme of the last set_theme that returned
\* (the default theme before any), whenever the logger was created; a call
\* of a logger with an override is rendered by the override.
C19_LogRendersWithCurrentTheme ==
  (last.call = "log" /\ last.emitted) =>
    LET f == loggers[last.logger].formatter
    IN  /\ f = None => last.formatted = LineUnder(CurrentTheme)
        /\ f = "DefaultFormatter(PLAIN)" => last.formatted = LineUnder(Theme_PLAIN)
        /\ f = "PlainFormatter" => last.formatted = PlainFormatter_format(LastEntry)

\* C19 witness: with colours on, set_theme(PLAIN) returned after the last
\* logger was created, and a logger without an override then logged a line
\* that is the Plain theme's and not the default theme's
C19_Witness ==
  /\ last.call = "log" /\ last.emitted
  /\ loggers[last.logger].formatter = None
  /\ derived.op = "set_theme" /\ derived.arg = "PLAIN"
  /\ last.formatted = LineUnder(Theme_PLAIN)
  /\ last.formatted # LineUnder(Theme_DEFAULT)


---------------------------------------------------------------------------
(* SpecColor: under every setting of the four colour variables (absent,    *)
(* empty, or "0"), with standard error a terminal or not, open or closed,  *)
(* the host program calls should_use_color() and colorize().               *)

ColorVars == {"NO_COLOR", "REDLOG_NO_COLOR", "FORCE_COLOR", "REDLOG_FORCE_COLOR"}
ColorEnvs == UNION {[D -> {"", "0"}] : D \in SUBSET ColorVars}

InitColor == InitCfg /\ InitThr /\ InitObj /\ InitIO(ColorEnvs, {FALSE, TRUE}) /\ InitMux

\* should_use_color()
ShouldUseColor ==
  /\ LET use == should_use_color(environ, isatty, stderr)
     IN  last' = [call |-> "should_use_color", text |-> "", fg |-> 0, bg |-> 0,
                  exc |-> use.exc, use |-> use.val, out |-> ""]
  /\ UNCHANGED <<cfgVars, thrVars, objVars, ioVars, muxVars>>

\* colorize(text, fg, bg)
Colorize(text, fg, bg) ==
  /\ LET use == should_use_color(environ, isatty, stderr)
     IN  last' = [call |-> "colorize", text |-> text, fg |-> fg, bg |-> bg,
                  exc |-> use.exc, use |-> use.val,
                  out |-> IF use.exc # "none" THEN ""
                          ELSE colorize(text, fg, bg, use.val)]
  /\ UNCHANGED <<cfgVars, thrVars, objVars, ioVars, muxVars>>

ColorColorize ==
  \E text \in {"", "x"}, fg \in {Color.NONE, Color.RED, Color.BRIGHT_CYAN},
     bg \in {Color.NONE, Color.ON_RED} : Colorize(text, fg, bg)

NextColor == ShouldUseColor \/ ColorColorize \/ CloseStderr

SpecColor == InitColor /\ [][NextColor]_vars

\* the codes of an escape sequence: those that are not none, foreground first
JoinedCodes(fg, bg) ==
  IF fg # 0 /\ bg # 0 THEN ToString(fg) \o ";" \o ToString(bg)
  ELSE IF fg # 0 THEN ToString(fg) ELSE ToString(bg)

C22_PresenceDecidesColor ==
  (last.call = "should_use_color" /\ last.exc = "none") =>
    last.use = IF "NO_COLOR" \in DOMAIN environ \/ "REDLOG_NO_COLOR" \in DOMAIN environ
               THEN FALSE
               ELSE IF "FORCE_COLOR" \in DOMAIN environ
                       \/ "REDLOG_FORCE_COLOR" \in DOMAIN environ
               THEN TRUE
               ELSE isatty


---------------------------------------------------------------------------
(* SpecPlain: one thread sets the theme and the level, binds fields onto a *)
(* logger from get_logger("db") and logs through the Default formatter.    *)

MaxPlainLoggers == 3
MaxPlainWrites  == 1

InitPlain == InitCfg /\ InitThr /\ InitObj /\ InitIO({NoEnv, ForceColorEnv}, {FALSE}) /\ InitMux

PlainGetLogger == GetLogger("db", MaxPlainLoggers)
PlainWithField ==
  \E id \in DOMAIN loggers, kv \in {<<"host", PyStr("x")>>, <<"port", PyInt(5432)>>} :
    WithField(id, kv[1], kv[2], MaxPlainLoggers)
PlainSetTheme == \E th \in ThemeNames : SetTheme(th)
PlainSetLevel == \E l \in {ERROR, INFO} : SetLevel(l)
PlainLog ==
  \E id \in DOMAIN loggers, m \in {"error", "info"} :
    Log(id, m, "connected", <<>>, Now, MaxPlainWrites)

NextPlain == PlainGetLogger \/ PlainWithField \/ PlainSetTheme \/ PlainSetLevel \/ PlainLog

SpecPlain == InitPlain /\ [][NextPlain]_vars

\* the text followed by blanks up to the width
PaddedTo(text, width) == text \o Blanks(width - Len(text))

\* the fields the logger of the last call was created with, as key=value
BoundPairs ==
  LET bound == birth[last.logger].view.fields
  IN  [i \in 1..Len(bound) |-> bound[i].key \o "=" \o bound[i].value]

\* C23: under the Plain theme an emitted call of a logger with bound fields
\* and no formatter override is rendered as the source tag padded to 12
\* columns, the level tag of the 3-letter short name, one space, the message
\* padded to 44 columns, one space and the bound key=value pairs joined by
\* spaces in binding order, without any colour sequence.
C23_PlainLineOfBoundFields ==
  (/\ last.call = "log" /\ last.emitted
   /\ targ[1].theme = "PLAIN"
   /\ Len(birth[last.logger].view.fields) > 0) =>
    last.formatted =
      PaddedTo("[" \o loggers[last.logger].name \o "]", 12) \o
      (IF last.method = "info" THEN "[inf]" ELSE "[err]") \o " " \o
      PaddedTo(last.sent, 44) \o " " \o SepJoined(BoundPairs, " ")

\* C23 witness: get_logger("db").with_field("host", "x").with_field("port",
\* 5432).info("connected") at min_level INFO under the Plain theme, colours
\* forced on, wrote the line of the scenario to standard error
C23_Witness ==
  /\ last.call = "log" /\ last.emitted /\ last.method = "info" /\ last.min = INFO
  /\ targ[1].theme = "PLAIN"
  /\ environ = ForceColorEnv
  /\ last.formatted = "[db]        [inf] connected" \o Blanks(35) \o " host=x port=5432"
  /\ stderr.out = <<last.formatted>>


---------------------------------------------------------------------------
(* SpecSeq: one thread creates loggers that share one StringSink as sink   *)
(* override, with and without a formatter override, sets the level and     *)
(* logs.                                                                   *)

MaxSeqLoggers == 2
MaxSeqWrites  == 2

InitSeq == InitCfg /\ InitThr /\ InitObj /\ InitIO({NoEnv}, {FALSE}) /\ InitMux

SeqNewLogger ==
  \E nf \in {<<"a", None>>, <<"b", "PlainFormatter">>, <<"b", "RaisingFormatter">>} :
    NewLogger(nf[1], nf[2], "StringSink", MaxSeqLoggers)
SeqSetLevel == \E l \in {ERROR, INFO} : SetLevel(l)
SeqLog ==
  \E id \in DOMAIN loggers, m \in {"error", "info"}, message \in {"m", "n"} :
    Log(id, m, message, <<>>, Now, MaxSeqWrites)

NextSeq == SeqNewLogger \/ SeqSetLevel \/ SeqLog

SpecSeq == InitSeq /\ [][NextSeq]_vars

\* what a step gives the shared sink: the line of the log call it made (a
\* step that leaves a new record of a log call), if the call was enabled and
\* its formatter returned a line; else nothing
StepWrites ==
  IF /\ last' # last /\ last'.call = "log"
     /\ MethodLevel(last'.method) <= min_level
     /\ loggers[last'.logger].formatter # "RaisingFormatter"
  THEN <<last'.formatted>>
  ELSE <<>>

---------------------------------------------------------------------------
(* SpecAlias: one thread derives loggers with with_field and with_name and *)
(* changes, in place, the FieldSet that a logger's `fields` property       *)
(* hands out.  `last` keeps the call and what every logger carried before  *)
(* it; `derived` keeps the last derivation.                                *)

MaxAliasLoggers == 3
MaxAliasFields  == 2

AliasFields == {Field("x", PyInt(1)), Field("y", PyInt(2))}

\* what every logger carries
Carried(heap) == [i \in DOMAIN loggers |-> BoundFields(heap, loggers[i])]

\* loggers[id].fields.add(field): the FieldSet of the property, changed in
\* place; a FieldSet made by the property for this access dies with the call
FieldsAdd(id, field) ==
  /\ id \in DOMAIN loggers
  /\ Len(BoundFields(fsHeap, loggers[id])) < MaxAliasFields
  /\ LET own == Logger_fields(fsHeap, loggers[id])
     IN  fsHeap' = SubSeq(FieldSet_add(own.heap, own.ref, field), 1, Len(fsHeap))
  /\ last' = [call |-> "fields.add", logger |-> id, added |-> <<field>>,
              before |-> Carried(fsHeap)]
  /\ UNCHANGED <<cfgVars, thrVars, loggers, birth, derived, ioVars, muxVars>>

\* loggers[id].fields.merge(FieldSet(fields))
FieldsMerge(id, fields) ==
  /\ id \in DOMAIN loggers
  /\ Len(BoundFields(fsHeap, loggers[id])) + Len(fields) <= MaxAliasFields
  /\ LET own   == Logger_fields(fsHeap, loggers[id])
         other == FieldSet_init(own.heap, fields)
     IN  fsHeap' = SubSeq(FieldSet_merge(other.heap, own.ref, other.ref), 1, Len(fsHeap))
  /\ last' = [call |-> "fields.merge", logger |-> id, added |-> fields,
              before |-> Carried(fsHeap)]
  /\ UNCHANGED <<cfgVars, thrVars, loggers, birth, derived, ioVars, muxVars>>

InitAlias == InitCfg /\ InitThr /\ InitObj /\ InitIO({NoEnv}, {FALSE}) /\ InitMux

AliasGetLogger == GetLogger("a", MaxAliasLoggers)
AliasWithField ==
  \E id \in DOMAIN loggers : WithField(id, "k", PyStr("v"), MaxAliasLoggers)
AliasWithName == \E id \in DOMAIN loggers : WithName(id, "b", MaxAliasLoggers)
AliasAdd == \E id \in DOMAIN loggers, f \in AliasFields : FieldsAdd(id, f)
AliasMerge ==
  \E id \in DOMAIN loggers, f \in AliasFields : FieldsMerge(id, <<f>>)

NextAlias == AliasGetLogger \/ AliasWithField \/ AliasWithName \/ AliasAdd \/ AliasMerge

SpecAlias == InitAlias /\ [][NextAlias]_vars

\* the last call changed a FieldSet in place through a logger's property,
\* and was made after the last derivation
ChangedInPlace ==
  /\ last.call \in {"fields.add", "fields.merge"}
  /\ derived.res \in DOMAIN last.before

\* C25 (as claimed): when the last derivation was derived = base.with_name(n)
\* and a FieldSet was then changed in place through the `fields` property of
\* one of the two, the other still carries what it carried before the call.
C25_WithNameFieldSetIndependent ==
  (ChangedInPlace /\ derived.op = "with_name"
                  /\ last.logger \in {derived.recv, derived.res}) =>
    \A o \in {derived.recv, derived.res} \ {last.logger} :
      BoundFields(fsHeap, loggers[o]) = last.before[o]


\* C26 (as claimed): a get_theme() that started after a set_theme(t) had
\* returned, with no set_theme in progress then or begun before it returned,
\* returns t - whatever the other thread's get_theme was doing meanwhile.
C26_CompletedSetThemeNeverLost ==
  (hist.tread.thread # NoThread /\ hist.tread.clean /\ hist.tread.expect # None) =>
    hist.tread.val = hist.tread.expect


---------------------------------------------------------------------------
(* SpecPrintf: thread 1 makes printf-style calls on one logger, step by    *)
(* step - the guard of the _f method, the interpolation, the delegated log *)
(* call - while thread 2 makes set_level calls.  `last` keeps what the     *)
(* last call that returned did.                                            *)

MaxPrintfLines == 2

InPrintf(t) == pc[t] \in {"pf_guard", "pf_interpolate", "pf_delegate"}

\* what a printf-style call that returned did
PrintfDone(t, interpolated, emitted) ==
  [call |-> "logf", thread |-> t, level |-> targ[t].level,
   interpolated |-> interpolated, emitted |-> emitted]

\* logger.info_f / error_f (format_str, *args) is called
CallLogF(t, level) ==
  /\ pc[t] = "idle"
  /\ Len(sinkBuf) + Cardinality({u \in Threads : InPrintf(u)}) < MaxPrintfLines
  /\ pc' = [pc EXCEPT ![t] = "pf_guard"]
  /\ targ' = [targ EXCEPT ![t].level = level]
  /\ UNCHANGED <<cfgVars, tret, hist, objVars, ioVars, last, muxVars>>

\* <level>_f: `if not self._should_log(Level.X): return`
PrintfGuard(t) ==
  /\ pc[t] = "pf_guard"
  /\ IF Logger_should_log(targ[t].level, Config_min_level(min_level))
     THEN pc' = [pc EXCEPT ![t] = "pf_interpolate"] /\ last' = last
     ELSE pc' = [pc EXCEPT ![t] = "idle"] /\ last' = PrintfDone(t, FALSE, FALSE)
  /\ UNCHANGED <<cfgVars, targ, tret, hist, objVars, ioVars, muxVars>>

\* <level>_f: message = format_str % args
PrintfInterpolate(t) ==
  /\ pc[t] = "pf_interpolate"
  /\ PercentFormat("n=%d", <<PyInt(5)>>).exc = "none"
  /\ pc' = [pc EXCEPT ![t] = "pf_delegate"]
  /\ UNCHANGED <<cfgVars, targ, tret, hist, objVars, ioVars, last, muxVars>>

\* <level>_f: self.<level>(message), that is Logger._log with its own check
PrintfDelegate(t) ==
  /\ pc[t] = "pf_delegate"
  /\ LET r == Logger_log(LockLogger, targ[t].level,
                         PercentFormat("n=%d", <<PyInt(5)>>).out, <<>>, Now, CurState)
     IN  /\ theme' = r.theme
         /\ sinkBuf' = r.sinkBuf
         /\ stderr' = r.stderr
         /\ last' = PrintfDone(t, TRUE, r.emitted)
  /\ pc' = [pc EXCEPT ![t] = "idle"]
  /\ UNCHANGED <<min_level, lock, targ, tret, hist, objVars, environ, isatty, fsink, muxVars>>

PrintfLogF ==
  \E t \in {1} :
    \/ \E l \in {ERROR, INFO} : CallLogF(t, l)
    \/ PrintfGuard(t)
    \/ PrintfInterpolate(t)
    \/ PrintfDelegate(t)
PrintfSetLevel ==
  \E t \in {2} :
    \/ \E l \in {ERROR, INFO} : CallSetLevel(t, l)
    \/ SetLevelAcquire(t)
    \/ SetLevelWrite(t)
    \/ SetLevelRelease(t)
    \/ SetLevelReturn(t)

NextPrintf == PrintfLogF \/ PrintfSetLevel

SpecPrintf == InitConc /\ [][NextPrintf]_vars

\* C27 (as claimed): a printf-style call that interpolated its format string
\* also emitted the message, whatever set_level calls ran meanwhile.
C27_InterpolatedCallIsEmitted ==
  (last.call = "logf" /\ last.interpolated) => last.emitted


---------------------------------------------------------------------------
(* SpecOutcome: one thread creates loggers over every formatter and sink   *)
(* slot and logs; the host program may have put at sys.stderr a stream     *)
(* that takes what is printed and raises OSError when flushed.             *)

MaxOutcomeLoggers == 1
MaxOutcomeWrites  == 1

\* sys.stderr = <a stream whose flush raises>
ReplaceStderr ==
  /\ ~stderr.flush_raises
  /\ stderr' = [stderr EXCEPT !.flush_raises = TRUE]
  /\ last' = NoCall
  /\ UNCHANGED <<cfgVars, thrVars, objVars, sinkBuf, environ, isatty, fsink, muxVars>>

InitOutcome == InitCfg /\ InitThr /\ InitObj /\ InitIO({NoEnv}, {FALSE}) /\ InitMux

OutcomeNewLogger ==
  \E f \in FormatterSlots, s \in SinkSlots : NewLogger("app", f, s, MaxOutcomeLoggers)
OutcomeSetLevel == \E l \in {ERROR, INFO} : SetLevel(l)
OutcomeLog ==
  \E id \in DOMAIN loggers, m \in {"error", "info"} :
    Log(id, m, "m", <<>>, Now, MaxOutcomeWrites)

NextOutcome == OutcomeNewLogger \/ OutcomeSetLevel \/ ReplaceStderr \/ OutcomeLog

SpecOutcome == InitOutcome /\ [][NextOutcome]_vars

\* the lines the last call added to standard error and to the StringSink
NewOnStderr == {stderr.out[i] : i \in (last.errLen + 1)..Len(stderr.out)}
NewInBuffer == {sinkBuf[i] : i \in (last.bufLen + 1)..Len(sinkBuf)}

\* the rendered line of the last call reached the destination of the
\* logger's effective sink
Delivered ==
  /\ last.writes = 1
  /\ IF loggers[last.logger].sink = "StringSink"
     THEN last.formatted \in NewInBuffer
     ELSE loggers[last.logger].sink \in {None, "ConsoleSink"}
          /\ last.formatted \in NewOnStderr

\* the fallback line of the last call was written to standard error
FellBack == FallbackLine(last.sent) \in NewOnStderr

\* C28 (as claimed): an emitted log call either delivers its rendered line
\* to the sink's destination or writes the fallback line to standard error,
\* and never does both.
C28_DeliveredOrFallbackNotBoth ==
  (last.call = "log" /\ last.emitted) => (Delivered # FellBack)


---------------------------------------------------------------------------
(* SpecCapture: one thread sets the theme, creates loggers without an      *)
(* override and loggers whose override is a DefaultFormatter() or a        *)
(* TimestampedFormatter() built without a theme, and logs.  The host names *)
(* a logger with an override after the theme it had last set when it built *)
(* the formatter ("DEFAULT" before any set_theme).                         *)

MaxCaptureLoggers == 2
MaxCaptureWrites  == 1

CaptureNow == DateTime("2024-01-15", "10:30:00", 0)

\* the name of the theme the host last set
LastSetTheme == IF targ[1].theme = None THEN "DEFAULT" ELSE targ[1].theme

\* log = Logger(LastSetTheme, <class>(), StringSink())
NewLoggerWithFormatter(class, cap) ==
  /\ Len(loggers) < cap
  /\ LET f == Formatter_init(class, None, theme)
     IN  /\ Store(Logger_init(LastSetTheme, f.formatter, "StringSink", NoRef),
                  fsHeap, LastSetTheme, <<>>)
         /\ theme' = f.theme
  /\ derived' = NoDerivation
  /\ UNCHANGED <<min_level, lock, thrVars, ioVars, last, muxVars>>

InitCapture == InitCfg /\ InitThr /\ InitObj /\ InitIO({NoEnv, ForceColorEnv}, {FALSE}) /\ InitMux

CaptureGetLogger == GetLogger("app", MaxCaptureLoggers)
CaptureNewLogger ==
  \E class \in {"DefaultFormatter", "TimestampedFormatter"} :
    NewLoggerWithFormatter(class, MaxCaptureLoggers)
CaptureSetTheme == \E th \in ThemeNames : SetTheme(th)
CaptureLog ==
  \E id \in DOMAIN loggers, m \in {"error", "info"} :
    Log(id, m, "m", <<>>, CaptureNow, MaxCaptureWrites)

NextCapture == CaptureGetLogger \/ CaptureNewLogger \/ CaptureSetTheme \/ CaptureLog

SpecCapture == InitCapture /\ [][NextCapture]_vars

\* the entry of the last log call, and whether colours are on
CapturedEntry ==
  LogEntry(MethodLevel(last.method), last.sent, loggers[last.logger].name,
           last.entry, CaptureNow)
ColoursOn == should_use_color(environ, isatty, stderr).val

\* the line a formatter of the class of the last call's override makes of
\* the entry under a theme
OverrideLine(th) ==
  IF StartsWith(loggers[last.logger].formatter, "Timestamped")
  THEN TimestampedFormatter_format(th, CapturedEntry, ColoursOn)
  ELSE DefaultFormatter_format(th, CapturedEntry, ColoursOn)

\* C29: a logger whose override is a DefaultFormatter or TimestampedFormatter
\* built without a theme renders with the theme that was current when the
\* formatter was built, whatever set_theme calls came later; a logger
\* without an override renders with the theme last set.
C29_OverrideKeepsCapturedTheme ==
  (last.call = "log" /\ last.emitted) =>
    IF loggers[last.logger].formatter = None
    THEN last.formatted = DefaultFormatter_format(ThemeOf(LastSetTheme), CapturedEntry,
                                                  ColoursOn)
    ELSE last.formatted = OverrideLine(ThemeOf(loggers[last.logger].name))

\* C29 witness: with colours on, a logger got a DefaultFormatter() while the
\* default theme was current, set_theme(PLAIN) returned after the last logger
\* was created, and that logger then logged a line of the default theme that
\* differs from the Plain theme's
C29_Witness ==
  /\ last.call = "log" /\ last.emitted
  /\ loggers[last.logger].name = "DEFAULT"
  /\ loggers[last.logger].formatter # None
  /\ ~StartsWith(loggers[last.logger].formatter, "Timestamped")
  /\ derived.op = "set_theme" /\ derived.arg = "PLAIN"
  /\ last.formatted = OverrideLine(Theme_DEFAULT)
  /\ last.formatted # OverrideLine(Theme_PLAIN)


---------------------------------------------------------------------------
(* SpecClosed: SpecFile's host program, which also hands its FileSink to a *)
(* logger, Logger("app", PlainFormatter(), sink), and logs through it      *)
(* before and after close().                                               *)

\* log.info(message) on the logger that holds the FileSink: Logger._log with
\* FileSink.write as the sink's write
FileLog(message) ==
  /\ fsink.alive
  /\ Len(fsink.written) < MaxFileLines /\ Len(stderr.out) < MaxFileLines
  /\ Logger_should_log(INFO, min_level)
  /\ LET lg == Logger_init("app", "PlainFormatter", None, NoRef)
         S  == [theme |-> theme, environ |-> environ, isatty |-> isatty,
                stderr |-> stderr]
         f  == Logger_format(lg, LogEntry(INFO, message, lg.name, <<>>, Now), S)
         w  == IF f.exc = "none" THEN FileSink_write(fsink.sink, f.out, FileIO)
               ELSE [exc |-> f.exc, opened |-> fsink.opened, stderr |-> stderr]
         fb == IF CaughtAsException(w.exc)
               THEN Stream_print(w.stderr, FallbackLine(message))
               ELSE [exc |-> w.exc, st |-> w.stderr]
     IN  /\ fsink' = [fsink EXCEPT !.opened = w.opened, !.op = "log", !.exc = fb.exc,
                                   !.written = IF w.exc = "none" THEN Append(@, f.out)
                                               ELSE @]
         /\ stderr' = fb.st
         /\ theme' = f.theme
  /\ UNCHANGED <<min_level, lock, thrVars, objVars, sinkBuf, environ, isatty, last, muxVars>>

FileLogs == \E message \in {"m"} : FileLog(message)

NextClosed == FileConstruct \/ FileWrites \/ FileFlush \/ FileClose \/ FileDel \/ FileLogs

SpecClosed == InitFile /\ [][NextClosed]_vars

\* the last call on the sink came after close() on a sink that owns its file
AfterCloseOfOwned ==
  /\ fsink.made /\ fsink.sink.should_close /\ fsink.closes > 0
  /\ fsink.op \in {"write", "flush", "log"}

\* C30: once close() has been called on a FileSink that owns its file, a
\* later write() or flush() does not raise, and neither they nor a log call
\* through a logger holding the sink have put anything on standard error
\* (no fallback line) or in the file.
C30_ClosedSinkIsSilentNoOp ==
  AfterCloseOfOwned =>
    /\ fsink.op \in {"write", "flush"} => fsink.exc = "none"
    /\ stderr.out = <<>>

\* what does hold after close(): write() and flush() raise ValueError and the
\* file receives nothing more; a log call returns, with the fallback line on
\* standard error
C30_ClosedSinkRaises ==
  AfterCloseOfOwned =>
    /\ fsink.opened.closed
    /\ fsink.op \in {"write", "flush"} => fsink.exc = "ValueError"
    /\ fsink.op = "log" =>
         /\ fsink.exc = "none"
         /\ stderr.out # <<>>
         /\ stderr.out[Len(stderr.out)] = FallbackLine("m")

\* a logger logged through the sink after close(): the file kept the one
\* line written before, and standard error holds the fallback line
LoggedAfterClose ==
  /\ AfterCloseOfOwned /\ fsink.op = "log"
  /\ fsink.opened.out = <<"a">>
  /\ stderr.out = <<FallbackLine("m")>>


====
